---------------------------- MODULE Spec2Model ----------------------------
(***************************************************************************)
(* A model of the linear-algebra utility library of                        *)
(* src/2_Project_2/shape-editor.js (vector and matrix constructors, the    *)
(* generic operations, the transformation, view and projection matrix      *)
(* generators, the determinant / inverse family and linearFlatten), and of *)
(* the random numbers and colours of src/1_Assignment_1/.shared.js.        *)
(*                                                                         *)
(* JavaScript numbers are modelled as exact rationals n/d extended with    *)
(* the three non-finite values of IEEE arithmetic (d = 0: n = 1 is         *)
(* +Infinity, n = -1 is -Infinity, n = 0 is NaN).  Rounding of double      *)
(* arithmetic and the sign of zero are not modelled; the conversion to a   *)
(* 32-bit float done by Float32Array is (see fround).  Math.cos, Math.sin,  *)
(* Math.tan and Math.sqrt are the exact functions, taken where their       *)
(* values are rational.                                                    *)
(*                                                                         *)
(* A library call is one action: it draws its arguments from bounded sets, *)
(* and records the value returned, the number of console.error reports,    *)
(* whether the call threw, and the arguments as the call leaves them (the  *)
(* arrays a function writes into are the caller's).                        *)
(***************************************************************************)
EXTENDS Integers, Sequences, FiniteSets, TLC

VARIABLES pc, op, args, result, errors, thrown, argsLeft

\* randomNumber and randomRGBAColor: the values Math.random() returned to
\* the call and for the four components of the colour, and the locals
VARIABLES drawn, color, currentOverage, randomColorIndex

colorVars == <<drawn, color, currentOverage, randomColorIndex>>

\* initShaders, setupWebGL and create3DContext: the ids of the elements of
\* the document, the accesses made to the browser with what it answered, the
\* messages shown by showErrorText, and the locals i (tried) and context
VARIABLES elements, calls, shown, tried, context

webglVars == <<elements, calls, shown, tried, context>>

\* the cube demo: its globals axis and theta, and the number of callbacks
\* requestAnimFrame has pending
VARIABLES cubeAxis, cubeTheta, frames

cubeVars == <<cubeAxis, cubeTheta, frames>>

vars ==
  <<pc, op, args, result, errors, thrown, argsLeft, colorVars, webglVars, cubeVars>>

(***************************************************************************)
(* Bounds of the model.                                                    *)
(***************************************************************************)
\* entries of the sample vectors and matrices range over -MaxEntry..MaxEntry
MaxEntry == 2
\* components of the operands of the binary operations range over 0..MaxComp
MaxComp == 1

\* Math.random() returns the numbers k / Steps
Steps == 20

(***************************************************************************)
(* JavaScript numbers.                                                     *)
(***************************************************************************)
Abs(x) == IF x < 0 THEN -x ELSE x

Sgn(x) == IF x < 0 THEN -1 ELSE IF x > 0 THEN 1 ELSE 0

RECURSIVE Gcd(_, _)
Gcd(a, b) == IF b = 0 THEN a ELSE Gcd(b, a % b)

\* the number n/d (d >= 0) in lowest terms
Num(n, d) ==
  IF d = 0
  THEN [kind |-> "number", n |-> Sgn(n), d |-> 0]
  ELSE LET g == Gcd(Abs(n), d)
       IN  [kind |-> "number", n |-> n \div g, d |-> d \div g]

Lit(n) == [kind |-> "number", n |-> n, d |-> 1]

NaN == [kind |-> "number", n |-> 0, d |-> 0]

Undefined == [kind |-> "undefined"]

Null == [kind |-> "null"]

Bool(b) == [kind |-> "boolean", b |-> b]

IsNumber(x) == x.kind = "number"

IsNaN(x) == x.n = 0 /\ x.d = 0

IsFinite(x) == x.d # 0

\* an Array; matrix is the value of its .matrix property (absent = FALSE)
Arr(elems, matrix) == [kind |-> "array", elems |-> elems, matrix |-> matrix]

IsArray(x) == x.kind = "array"

\* u.length (undefined for a number)
Length(u) == IF IsArray(u) THEN Len(u.elems) ELSE -1

\* u.matrix as a condition
Tagged(u) == IsArray(u) /\ u.matrix

\* u[i], 0-based as in the source; undefined outside the array
At(u, i) ==
  IF IsArray(u) /\ i >= 0 /\ i < Len(u.elems) THEN u.elems[i + 1] ELSE Undefined

\* u[i][j]
At2(u, i, j) == At(At(u, i), j)

\* the conversion of an operand of an arithmetic operator to a number
RECURSIVE ToNumber(_)
ToNumber(x) ==
  IF IsNumber(x) THEN x
  ELSE IF IsArray(x)
  THEN IF Len(x.elems) = 0 THEN Lit(0)
       ELSE IF Len(x.elems) = 1
       THEN IF x.elems[1].kind = "undefined" THEN Lit(0) ELSE ToNumber(x.elems[1])
       ELSE NaN
  ELSE NaN

AddNum(x, y) ==
  IF IsNaN(x) \/ IsNaN(y) THEN NaN
  ELSE IF x.d = 0 THEN (IF y.d = 0 /\ y.n # x.n THEN NaN ELSE x)
  ELSE IF y.d = 0 THEN y
  ELSE Num(x.n * y.d + y.n * x.d, x.d * y.d)

NegNum(x) == [kind |-> "number", n |-> -x.n, d |-> x.d]

MulNum(x, y) == Num(x.n * y.n, x.d * y.d)

RecipNum(x) ==
  IF x.n = 0 THEN (IF x.d = 0 THEN NaN ELSE Num(1, 0))
  ELSE IF x.d = 0 THEN Lit(0)
  ELSE IF x.n < 0 THEN Num(-x.d, -x.n)
  ELSE Num(x.d, x.n)

\* the operators +, -, *, / and unary - on numeric operands
Plus(x, y) == AddNum(ToNumber(x), ToNumber(y))

Minus(x, y) == AddNum(ToNumber(x), NegNum(ToNumber(y)))

Times(x, y) == MulNum(ToNumber(x), ToNumber(y))

Over(x, y) == MulNum(ToNumber(x), RecipNum(ToNumber(y)))

Negate(x) == NegNum(ToNumber(x))

\* x == y and x === y on numbers (NaN equals nothing)
NumEq(x, y) == IsNumber(x) /\ IsNumber(y) /\ ~IsNaN(x) /\ ~IsNaN(y) /\ x = y

\* x === y on the components of vectors
StrictEq(x, y) ==
  IF IsNumber(x) /\ IsNumber(y) THEN NumEq(x, y)
  ELSE x.kind = "undefined" /\ y.kind = "undefined"

\* sum = 0.0; for each term: sum += term
RECURSIVE SumFrom(_, _, _)
SumFrom(sum, terms, k) ==
  IF k > Len(terms) THEN sum ELSE SumFrom(Plus(sum, terms[k]), terms, k + 1)

SumOf(terms) == SumFrom(Lit(0), terms, 1)

(***************************************************************************)
(* What a call does: the value returned, the console.error reports made,   *)
(* and whether it threw.                                                   *)
(***************************************************************************)
Return(v) == [value |-> v, errors |-> 0, thrown |-> FALSE]

\* console.error(...); return;
ErrorReturn == [value |-> Undefined, errors |-> 1, thrown |-> FALSE]

\* console.error(...) and execution continues to return v
ErrorThen(v) == [value |-> v, errors |-> 1, thrown |-> FALSE]

Throw == [value |-> Undefined, errors |-> 0, thrown |-> TRUE]

\* var x = call; rest(x): the reports add up, and a call that throws ends
\* the caller
Then(call, Rest(_)) ==
  IF call.thrown THEN call
  ELSE [Rest(call.value) EXCEPT !.errors = @ + call.errors]

(***************************************************************************)
(* Constructors.                                                           *)
(***************************************************************************)
\* [].concat.apply([], arguments): array arguments are spread one level
RECURSIVE objectToArray(_)
objectToArray(a) ==
  IF Len(a) = 0 THEN << >>
  ELSE (IF IsArray(Head(a)) THEN Head(a).elems ELSE <<Head(a)>>)
       \o objectToArray(Tail(a))

\* result.splice(0, n): the first n elements (fewer if there are fewer)
FirstN(s, n) == SubSeq(s, 1, IF Len(s) < n THEN Len(s) ELSE n)

\* v.splice(0, n) leaves v without its first n elements
DropN(s, n) == SubSeq(s, (IF Len(s) < n THEN Len(s) ELSE n) + 1, Len(s))

vec2(a) ==
  LET r == objectToArray(a)
      padded == IF Len(r) = 0 THEN r \o <<Lit(0), Lit(0)>>
                ELSE IF Len(r) = 1 THEN r \o <<Lit(0)>>
                ELSE r
  IN  Arr(FirstN(padded, 2), FALSE)

vec3(a) ==
  LET r == objectToArray(a)
      padded == IF Len(r) = 0 THEN r \o <<Lit(0), Lit(0), Lit(0)>>
                ELSE IF Len(r) = 1 THEN r \o <<Lit(0), Lit(0)>>
                ELSE IF Len(r) = 2 THEN r \o <<Lit(0)>>
                ELSE r
  IN  Arr(FirstN(padded, 3), FALSE)

\* vec4 that fills a missing fourth component with 0.0
vec4_ZeroFilled(a) ==
  LET r == objectToArray(a)
      padded == IF Len(r) = 0 THEN r \o <<Lit(0), Lit(0), Lit(0), Lit(0)>>
                ELSE IF Len(r) = 1 THEN r \o <<Lit(0), Lit(0), Lit(0)>>
                ELSE IF Len(r) = 2 THEN r \o <<Lit(0), Lit(0)>>
                ELSE IF Len(r) = 3 THEN r \o <<Lit(0)>>
                ELSE r
  IN  Arr(FirstN(padded, 4), FALSE)

vec4(a) ==
  LET r == objectToArray(a)
      padded == IF Len(r) = 0 THEN r \o <<Lit(0), Lit(0), Lit(0), Lit(1)>>
                ELSE IF Len(r) = 1 THEN r \o <<Lit(0), Lit(0), Lit(1)>>
                ELSE IF Len(r) = 2 THEN r \o <<Lit(0), Lit(1)>>
                ELSE IF Len(r) = 3 THEN r \o <<Lit(1)>>
                ELSE r
  IN  Arr(FirstN(padded, 4), FALSE)

mat2(a) ==
  LET v == objectToArray(a)
      v0 == IF Len(v) = 0 THEN Lit(1) ELSE v[1]
      O == Lit(0)
  IN  IF Len(v) <= 1
      THEN Arr(<<vec2(<<v0, O>>), vec2(<<O, v0>>)>>, TRUE)
      ELSE Arr(<<vec2(<<Arr(v, FALSE)>>),
                 vec2(<<Arr(DropN(v, 2), FALSE)>>)>>, TRUE)

\* mat3 that takes its first two rows from the same arguments
mat3_RowRepeated(a) ==
  LET v == objectToArray(a)
      v0 == IF Len(v) = 0 THEN Lit(1) ELSE v[1]
      O == Lit(0)
  IN  IF Len(v) <= 1
      THEN Arr(<<vec3(<<v0, O, O>>), vec3(<<v0, O, O>>), vec3(<<O, O, v0>>)>>, TRUE)
      ELSE Arr(<<vec3(<<Arr(v, FALSE)>>),
                 vec3(<<Arr(DropN(v, 3), FALSE)>>),
                 vec3(<<Arr(DropN(v, 6), FALSE)>>)>>, TRUE)

mat3(a) ==
  LET v == objectToArray(a)
      v0 == IF Len(v) = 0 THEN Lit(1) ELSE v[1]
      O == Lit(0)
  IN  IF Len(v) <= 1
      THEN Arr(<<vec3(<<v0, O, O>>), vec3(<<O, v0, O>>), vec3(<<O, O, v0>>)>>, TRUE)
      ELSE Arr(<<vec3(<<Arr(v, FALSE)>>),
                 vec3(<<Arr(DropN(v, 3), FALSE)>>),
                 vec3(<<Arr(DropN(v, 6), FALSE)>>)>>, TRUE)

\* mat4 whose last row is built by vec3
mat4_ShortRow(a) ==
  LET v == objectToArray(a)
      v0 == IF Len(v) = 0 THEN Lit(1) ELSE v[1]
      O == Lit(0)
  IN  IF Len(v) <= 1
      THEN Arr(<<vec4(<<v0, O, O, O>>), vec4(<<O, v0, O, O>>),
                 vec4(<<O, O, v0, O>>), vec3(<<O, O, O, v0>>)>>, TRUE)
      ELSE Arr(<<vec4(<<Arr(v, FALSE)>>),
                 vec4(<<Arr(DropN(v, 4), FALSE)>>),
                 vec4(<<Arr(DropN(v, 8), FALSE)>>),
                 vec3(<<Arr(DropN(v, 12), FALSE)>>)>>, TRUE)

mat4(a) ==
  LET v == objectToArray(a)
      v0 == IF Len(v) = 0 THEN Lit(1) ELSE v[1]
      O == Lit(0)
  IN  IF Len(v) <= 1
      THEN Arr(<<vec4(<<v0, O, O, O>>), vec4(<<O, v0, O, O>>),
                 vec4(<<O, O, v0, O>>), vec4(<<O, O, O, v0>>)>>, TRUE)
      ELSE Arr(<<vec4(<<Arr(v, FALSE)>>),
                 vec4(<<Arr(DropN(v, 4), FALSE)>>),
                 vec4(<<Arr(DropN(v, 8), FALSE)>>),
                 vec4(<<Arr(DropN(v, 12), FALSE)>>)>>, TRUE)

\* the constructor of dimension d
matN(d, a) == IF d = 2 THEN mat2(a) ELSE IF d = 3 THEN mat3(a) ELSE mat4(a)

vecN(d, a) == IF d = 2 THEN vec2(a) ELSE IF d = 3 THEN vec3(a) ELSE vec4(a)

\* a[i][j] = x on a matrix a
SetAt2(a, i, j, x) ==
  [a EXCEPT !.elems[i + 1] = [@ EXCEPT !.elems[j + 1] = x]]

(***************************************************************************)
(* Generic matrix and vector operations.                                   *)
(***************************************************************************)
\* the sequence <<f(0), ..., f(n-1)>> is written [i \in 1..n |-> f(i-1)]
Upto(n) == 1..(IF n < 0 THEN 0 ELSE n)

\* linearEquivalence that does not compare the lengths of the rows
linearEquivalence_NoRowLength(u, v) ==
  IF Length(u) # Length(v) THEN FALSE
  ELSE IF Tagged(u) /\ Tagged(v)
  THEN \A i \in 0..(Length(u) - 1) :
         \A j \in 0..(Length(At(u, i)) - 1) :
           StrictEq(At2(u, i, j), At2(v, i, j))
  ELSE IF (Tagged(u) /\ ~Tagged(v)) \/ (~Tagged(u) /\ Tagged(v)) THEN FALSE
  ELSE \A i \in 0..(Length(u) - 1) : StrictEq(At(u, i), At(v, i))

linearEquivalence(u, v) ==
  IF Length(u) # Length(v) THEN FALSE
  ELSE IF Tagged(u) /\ Tagged(v)
  THEN \A i \in 0..(Length(u) - 1) :
         /\ Length(At(u, i)) = Length(At(v, i))
         /\ \A j \in 0..(Length(At(u, i)) - 1) :
              StrictEq(At2(u, i, j), At2(v, i, j))
  ELSE IF (Tagged(u) /\ ~Tagged(v)) \/ (~Tagged(u) /\ Tagged(v)) THEN FALSE
  ELSE \A i \in 0..(Length(u) - 1) : StrictEq(At(u, i), At(v, i))

\* linearAddition whose vector branch does not compare the lengths
linearAddition_NoLengthCheck(u, v) ==
  IF Tagged(u) /\ Tagged(v)
  THEN IF Length(u) # Length(v) THEN ErrorReturn
       ELSE IF \E i \in 0..(Length(u) - 1) : Length(At(u, i)) # Length(At(v, i))
       THEN ErrorReturn
       ELSE Return(Arr([i \in Upto(Length(u)) |->
                         Arr([j \in Upto(Length(At(u, i - 1))) |->
                               Plus(At2(u, i - 1, j - 1), At2(v, i - 1, j - 1))],
                             FALSE)],
                       TRUE))
  ELSE IF (Tagged(u) /\ ~Tagged(v)) \/ (~Tagged(u) /\ Tagged(v)) THEN ErrorReturn
  ELSE Return(Arr([i \in Upto(Length(u)) |-> Plus(At(u, i - 1), At(v, i - 1))],
                  FALSE))

linearAddition(u, v) ==
  IF Tagged(u) /\ Tagged(v)
  THEN IF Length(u) # Length(v) THEN ErrorReturn
       ELSE IF \E i \in 0..(Length(u) - 1) : Length(At(u, i)) # Length(At(v, i))
       THEN ErrorReturn
       ELSE Return(Arr([i \in Upto(Length(u)) |->
                         Arr([j \in Upto(Length(At(u, i - 1))) |->
                               Plus(At2(u, i - 1, j - 1), At2(v, i - 1, j - 1))],
                             FALSE)],
                       TRUE))
  ELSE IF (Tagged(u) /\ ~Tagged(v)) \/ (~Tagged(u) /\ Tagged(v)) THEN ErrorReturn
  ELSE IF Length(u) # Length(v) THEN ErrorReturn
  ELSE Return(Arr([i \in Upto(Length(u)) |-> Plus(At(u, i - 1), At(v, i - 1))],
                  FALSE))

linearSubtract(u, v) ==
  IF Tagged(u) /\ Tagged(v)
  THEN IF Length(u) # Length(v) THEN ErrorReturn
       ELSE IF \E i \in 0..(Length(u) - 1) : Length(At(u, i)) # Length(At(v, i))
       THEN ErrorReturn
       ELSE Return(Arr([i \in Upto(Length(u)) |->
                         Arr([j \in Upto(Length(At(u, i - 1))) |->
                               Minus(At2(u, i - 1, j - 1), At2(v, i - 1, j - 1))],
                             FALSE)],
                       TRUE))
  ELSE IF (Tagged(u) /\ ~Tagged(v)) \/ (~Tagged(u) /\ Tagged(v)) THEN ErrorReturn
  ELSE IF Length(u) # Length(v) THEN ErrorReturn
  ELSE Return(Arr([i \in Upto(Length(u)) |-> Minus(At(u, i - 1), At(v, i - 1))],
                  FALSE))

\* both operands tagged: the row-by-column product
MultiplyMatrices(u, v) ==
  IF Length(u) # Length(v) THEN ErrorReturn
  ELSE IF \E i \in 0..(Length(u) - 1) : Length(At(u, i)) # Length(At(v, i))
  THEN ErrorReturn
  ELSE Return(Arr([i \in Upto(Length(u)) |->
                    Arr([j \in Upto(Length(v)) |->
                          SumOf([k \in Upto(Length(u)) |->
                                  Times(At2(u, i - 1, k - 1), At2(v, k - 1, j - 1))])],
                        FALSE)],
                  TRUE))

\* u tagged and u.length == v.length: the matrix applied to the vector
MultiplyMatrixVector(u, v) ==
  Return(Arr([i \in Upto(Length(v)) |->
               SumOf([j \in Upto(Length(v)) |->
                       Times(At2(u, i - 1, j - 1), At(v, j - 1))])],
             FALSE))

\* the dot product in place of the product component by component
MultiplyComponents_Dot(u, v) ==
  IF Length(u) # Length(v) THEN ErrorReturn
  ELSE Return(SumOf([i \in Upto(Length(u)) |-> Times(At(u, i - 1), At(v, i - 1))]))

\* every other pair: the product component by component
MultiplyComponents(u, v) ==
  IF Length(u) # Length(v) THEN ErrorReturn
  ELSE Return(Arr([i \in Upto(Length(u)) |-> Times(At(u, i - 1), At(v, i - 1))],
                  FALSE))

linearMultiply(u, v) ==
  IF Tagged(u) /\ Tagged(v) THEN MultiplyMatrices(u, v)
  ELSE IF Tagged(u) /\ Length(u) = Length(v) THEN MultiplyMatrixVector(u, v)
  ELSE MultiplyComponents(u, v)

(***************************************************************************)
(* Angles.  An angle in radians is kept as its quotient by pi, so that     *)
(* degrees * Math.PI / 180 is degrees / 180; the trigonometric functions   *)
(* are the exact ones at the whole multiples of pi/4, the angles the calls *)
(* are made with.                                                          *)
(***************************************************************************)
degreesToRadians(degrees) == Over(degrees, Lit(180))

\* k when the angle is k * pi / 4, for k in 0..7 (the angle taken mod 2 pi)
Eighths(radians) == ((4 * radians.n) \div radians.d) % 8

IsEighth(radians) == IsFinite(radians) /\ (4 * radians.n) % radians.d = 0

MathCos(radians) ==
  IF ~IsEighth(radians) THEN NaN
  ELSE CASE Eighths(radians) = 0 -> Lit(1)
         [] Eighths(radians) = 2 -> Lit(0)
         [] Eighths(radians) = 4 -> Lit(-1)
         [] Eighths(radians) = 6 -> Lit(0)
         [] OTHER -> NaN

\* the pole at pi/2 is left out of the angles the calls are made with
MathTan(radians) ==
  IF ~IsEighth(radians) THEN NaN
  ELSE CASE Eighths(radians) % 4 = 0 -> Lit(0)
         [] Eighths(radians) % 4 = 1 -> Lit(1)
         [] Eighths(radians) % 4 = 3 -> Lit(-1)
         [] OTHER -> NaN

MathSin(radians) ==
  IF ~IsEighth(radians) THEN NaN
  ELSE CASE Eighths(radians) = 0 -> Lit(0)
         [] Eighths(radians) = 2 -> Lit(1)
         [] Eighths(radians) = 4 -> Lit(0)
         [] Eighths(radians) = 6 -> Lit(-1)
         [] OTHER -> NaN

(***************************************************************************)
(* Affine transformation matrix generators.                                *)
(***************************************************************************)
\* translateMatrix that writes the offsets into the last row
translateMatrix_LastRow(x, y, z) ==
  LET unpack == IsArray(x) /\ Length(x) = 3
      z1 == IF unpack THEN At(x, 2) ELSE z
      y1 == IF unpack THEN At(x, 1) ELSE y
      x1 == IF unpack THEN At(x, 0) ELSE x
      r0 == mat4(<< >>)
      r1 == SetAt2(r0, 3, 0, x1)
      r2 == SetAt2(r1, 3, 1, y1)
  IN  Return(SetAt2(r2, 3, 2, z1))

\* a missing argument is passed as Undefined
translateMatrix(x, y, z) ==
  LET unpack == IsArray(x) /\ Length(x) = 3
      z1 == IF unpack THEN At(x, 2) ELSE z
      y1 == IF unpack THEN At(x, 1) ELSE y
      x1 == IF unpack THEN At(x, 0) ELSE x
      r0 == mat4(<< >>)
      r1 == SetAt2(r0, 0, 3, x1)
      r2 == SetAt2(r1, 1, 3, y1)
  IN  Return(SetAt2(r2, 2, 3, z1))

rotateX(theta) ==
  LET c == MathCos(degreesToRadians(theta))
      s == MathSin(degreesToRadians(theta))
      I == Lit(1)
      O == Lit(0)
  IN  Return(mat4(<<I, O, O, O,
                    O, c, Negate(s), O,
                    O, s, c, O,
                    O, O, O, I>>))

rotateY(theta) ==
  LET c == MathCos(degreesToRadians(theta))
      s == MathSin(degreesToRadians(theta))
      I == Lit(1)
      O == Lit(0)
  IN  Return(mat4(<<c, O, s, O,
                    O, I, O, O,
                    Negate(s), O, c, O,
                    O, O, O, I>>))

\* rotateZ turning the other way
rotateZ_Clockwise(theta) ==
  LET c == MathCos(degreesToRadians(theta))
      s == MathSin(degreesToRadians(theta))
      I == Lit(1)
      O == Lit(0)
  IN  Return(mat4(<<c, s, O, O,
                    Negate(s), c, O, O,
                    O, O, I, O,
                    O, O, O, I>>))

rotateZ(theta) ==
  LET c == MathCos(degreesToRadians(theta))
      s == MathSin(degreesToRadians(theta))
      I == Lit(1)
      O == Lit(0)
  IN  Return(mat4(<<c, Negate(s), O, O,
                    s, c, O, O,
                    O, O, I, O,
                    O, O, O, I>>))

\* scalingMatrix that scales the z axis by the y factor
scalingMatrix_RepeatedFactor(x, y, z) ==
  LET unpack == IsArray(x) /\ Length(x) = 3
      z1 == IF unpack THEN At(x, 2) ELSE z
      y1 == IF unpack THEN At(x, 1) ELSE y
      x1 == IF unpack THEN At(x, 0) ELSE x
      r0 == mat4(<< >>)
      r1 == SetAt2(r0, 0, 0, x1)
      r2 == SetAt2(r1, 1, 1, y1)
  IN  Return(SetAt2(r2, 2, 2, y1))

scalingMatrix(x, y, z) ==
  LET unpack == IsArray(x) /\ Length(x) = 3
      z1 == IF unpack THEN At(x, 2) ELSE z
      y1 == IF unpack THEN At(x, 1) ELSE y
      x1 == IF unpack THEN At(x, 0) ELSE x
      r0 == mat4(<< >>)
      r1 == SetAt2(r0, 0, 0, x1)
      r2 == SetAt2(r1, 1, 1, y1)
  IN  Return(SetAt2(r2, 2, 2, z1))

(***************************************************************************)
(* Matrix and vector functions.                                            *)
(***************************************************************************)
\* transposeMatrix that copies m[i][j] in place of m[j][i]
transposeMatrix_Copy(m) ==
  IF ~Tagged(m) THEN ErrorReturn
  ELSE IF \E i \in 0..(Length(m) - 1) : Length(At(m, i)) > Length(m)
  THEN Throw
  ELSE Return(Arr([i \in Upto(Length(m)) |->
                    Arr([j \in Upto(Length(At(m, i - 1))) |-> At2(m, i - 1, j - 1)],
                        FALSE)],
                  TRUE))

\* m[j][i] with m[j] undefined is a TypeError
transposeMatrix(m) ==
  IF ~Tagged(m) THEN ErrorReturn
  ELSE IF \E i \in 0..(Length(m) - 1) : Length(At(m, i)) > Length(m)
  THEN Throw
  ELSE Return(Arr([i \in Upto(Length(m)) |->
                    Arr([j \in Upto(Length(At(m, i - 1))) |-> At2(m, j - 1, i - 1)],
                        FALSE)],
                  TRUE))

\* u.length with u undefined is a TypeError
dotProduct(u, v) ==
  LET sum == SumOf([i \in Upto(Length(u)) |-> Times(At(u, i - 1), At(v, i - 1))])
  IN  IF u = Undefined \/ v = Undefined THEN Throw
      ELSE IF Length(u) # Length(v) THEN ErrorThen(sum) ELSE Return(sum)

negateElements(u) ==
  Arr([i \in Upto(Length(u)) |-> Negate(At(u, i - 1))], FALSE)

crossProduct(u, v) ==
  IF ~IsArray(u) \/ Length(u) < 3 THEN ErrorReturn
  ELSE IF ~IsArray(v) \/ Length(v) < 3 THEN ErrorReturn
  ELSE Return(Arr(<<Minus(Times(At(u, 1), At(v, 2)), Times(At(u, 2), At(v, 1))),
                    Minus(Times(At(u, 2), At(v, 0)), Times(At(u, 0), At(v, 2))),
                    Minus(Times(At(u, 0), At(v, 1)), Times(At(u, 1), At(v, 0)))>>,
                  FALSE))

mixVectors(u, v, s) ==
  IF ~IsNumber(s) THEN ErrorReturn
  ELSE IF Length(u) # Length(v) THEN ErrorReturn
  ELSE Return(Arr([i \in Upto(Length(u)) |->
                    Plus(Times(Minus(Lit(1), s), At(u, i - 1)),
                         Times(s, At(v, i - 1)))],
                  FALSE))

linearScale(s, u) ==
  LET scaled == Arr([i \in Upto(Length(u)) |-> Times(s, At(u, i - 1))], FALSE)
  IN  IF ~IsArray(u) THEN ErrorThen(scaled) ELSE Return(scaled)

\* the whole part of the square root of a natural number
ISqrt(n) == CHOOSE r \in 0..n : r * r <= n /\ (r + 1) * (r + 1) > n

\* the number is the square of a rational, or has no finite square root
HasRationalRoot(x) ==
  \/ ~IsFinite(x)
  \/ x.n < 0
  \/ ISqrt(x.n) * ISqrt(x.n) = x.n /\ ISqrt(x.d) * ISqrt(x.d) = x.d

\* Math.sqrt, exact on the squares of rationals; the calls are made with
\* vectors whose lengths are rational
MathSqrt(x) ==
  IF IsNaN(x) \/ x.n < 0 THEN NaN
  ELSE IF ~IsFinite(x) THEN x
  ELSE IF HasRationalRoot(x) THEN Num(ISqrt(x.n), ISqrt(x.d))
  ELSE NaN

vectorLength(u) ==
  Then(dotProduct(u, u), LAMBDA dot : Return(MathSqrt(ToNumber(dot))))

\* a value used as a condition
Truthy(x) ==
  \/ IsArray(x)
  \/ x.kind = "boolean" /\ x.b
  \/ IsNumber(x) /\ ~IsNaN(x) /\ x.n # 0

\* u with its last component popped
Popped(u) == Arr(FirstN(u.elems, Length(u) - 1), u.matrix)

\* the array u as the call leaves it: the components are divided in place,
\* and a popped last component is pushed back only after the division
normalizeVectorsLeaves(u, excludeLastComponent) ==
  IF u = Undefined THEN u
  ELSE IF Truthy(excludeLastComponent)
  THEN LET len == vectorLength(Popped(u))
       IN  IF len.thrown \/ ~IsFinite(len.value) THEN Popped(u)
           ELSE Arr(Append([i \in Upto(Length(u) - 1) |->
                              Over(At(u, i - 1), len.value)],
                           At(u, Length(u) - 1)),
                    Tagged(u))
  ELSE LET len == vectorLength(u)
       IN  IF len.thrown \/ ~IsFinite(len.value) THEN u
           ELSE Arr([i \in Upto(Length(u)) |-> Over(At(u, i - 1), len.value)],
                    Tagged(u))

\* the value returned; u.pop() with u undefined is a TypeError
normalizeVectors(u, excludeLastComponent) ==
  IF u = Undefined THEN Throw
  ELSE IF Truthy(excludeLastComponent)
  THEN Then(vectorLength(Popped(u)), LAMBDA len :
         IF ~IsFinite(len) THEN ErrorReturn
         ELSE Return(Arr(Append([i \in Upto(Length(u) - 1) |->
                                   Over(At(u, i - 1), len)],
                                 At(u, Length(u) - 1)),
                         Tagged(u))))
  ELSE Then(vectorLength(u), LAMBDA len :
         IF ~IsFinite(len) THEN ErrorReturn
         ELSE Return(Arr([i \in Upto(Length(u)) |-> Over(At(u, i - 1), len)],
                         Tagged(u))))

(***************************************************************************)
(* Model-view matrix generators.                                           *)
(***************************************************************************)
\* the rotation by the angle of cosine c and sine s about the unit vector v
Rodrigues(v, c, omc, s) ==
  LET x == At(v, 0)
      y == At(v, 1)
      z == At(v, 2)
      O == Lit(0)
  IN  mat4(<<vec4(<<Plus(Times(Times(x, x), omc), c),
                    Minus(Times(Times(x, y), omc), Times(z, s)),
                    Plus(Times(Times(x, z), omc), Times(y, s)), O>>),
             vec4(<<Plus(Times(Times(x, y), omc), Times(z, s)),
                    Plus(Times(Times(y, y), omc), c),
                    Minus(Times(Times(y, z), omc), Times(x, s)), O>>),
             vec4(<<Minus(Times(Times(x, z), omc), Times(y, s)),
                    Plus(Times(Times(y, z), omc), Times(x, s)),
                    Plus(Times(Times(z, z), omc), c), O>>),
             vec4(<< >>)>>)

\* the second argument as rotateMatrix leaves it: an array given as axis is
\* the array normalizeVectors divides
rotateMatrixLeaves(axis) ==
  IF ~IsArray(axis) THEN axis ELSE normalizeVectorsLeaves(axis, Undefined)

\* v[0] with v undefined is a TypeError; a missing argument is Undefined
rotateMatrix(angle, axis, y, z) ==
  Then(normalizeVectors(IF ~IsArray(axis) THEN Arr(<<axis, y, z>>, FALSE) ELSE axis,
                        Undefined),
       LAMBDA v :
         IF v = Undefined THEN Throw
         ELSE Return(Rodrigues(v, MathCos(degreesToRadians(angle)),
                               Minus(Lit(1), MathCos(degreesToRadians(angle))),
                               MathSin(degreesToRadians(angle)))))

\* u.length with u undefined is a TypeError
Negated(u) == IF u = Undefined THEN Throw ELSE Return(negateElements(u))

\* the rows n, u, v of the view matrix, each with minus its dot product with eye
ViewRows(n, u, v, eye) ==
  Then(dotProduct(n, eye), LAMBDA dn :
  Then(dotProduct(u, eye), LAMBDA du :
  Then(dotProduct(v, eye), LAMBDA dv :
    Return(mat4(<<vec4(<<n, Negate(dn)>>),
                  vec4(<<u, Negate(du)>>),
                  vec4(<<v, Negate(dv)>>),
                  vec4(<< >>)>>)))))

\* the matrix built once the three guards have passed and eye differs from at
LookAt(eye, at, up) ==
  Then(linearSubtract(at, eye), LAMBDA difference :
  Then(normalizeVectors(difference, Undefined), LAMBDA v :
  Then(crossProduct(v, up), LAMBDA perpendicular :
  Then(normalizeVectors(perpendicular, Undefined), LAMBDA n :
  Then(crossProduct(n, v), LAMBDA newUp :
  Then(normalizeVectors(newUp, Undefined), LAMBDA u :
  Then(Negated(v), LAMBDA negated :
    ViewRows(n, u, negated, eye))))))))

\* viewMatrixAt that does not check up
viewMatrixAt_UpUnchecked(eye, at, up) ==
  IF ~IsArray(eye) \/ Length(eye) # 3 THEN ErrorReturn
  ELSE IF ~IsArray(at) \/ Length(at) # 3 THEN ErrorReturn
  ELSE IF linearEquivalence(eye, at) THEN Return(mat4(<< >>))
  ELSE LookAt(eye, at, up)

\* viewMatrixAt that does not compare eye with at
viewMatrixAt_AlwaysLooks(eye, at, up) ==
  IF ~IsArray(eye) \/ Length(eye) # 3 THEN ErrorReturn
  ELSE IF ~IsArray(at) \/ Length(at) # 3 THEN ErrorReturn
  ELSE IF ~IsArray(up) \/ Length(up) # 3 THEN ErrorReturn
  ELSE LookAt(eye, at, up)

viewMatrixAt(eye, at, up) ==
  IF ~IsArray(eye) \/ Length(eye) # 3 THEN ErrorReturn
  ELSE IF ~IsArray(at) \/ Length(at) # 3 THEN ErrorReturn
  ELSE IF ~IsArray(up) \/ Length(up) # 3 THEN ErrorReturn
  ELSE IF linearEquivalence(eye, at) THEN Return(mat4(<< >>))
  ELSE LookAt(eye, at, up)

(***************************************************************************)
(* linearFlatten: the Float32Array conversion.                             *)
(***************************************************************************)
RECURSIVE Pow2(_)
Pow2(k) == IF k = 0 THEN 1 ELSE 2 * Pow2(k - 1)

\* a float has a 24-bit significand
SignificandBits == 24

\* a/d scaled by powers of two into [2^23, 2^24): the scaled fraction and the
\* number e of doublings made (halvings count negative)
RECURSIVE ScaleToSignificand(_, _, _)
ScaleToSignificand(a, d, e) ==
  IF a \div d >= Pow2(SignificandBits) THEN ScaleToSignificand(a, 2 * d, e - 1)
  ELSE IF a \div d < Pow2(SignificandBits - 1) THEN ScaleToSignificand(2 * a, d, e + 1)
  ELSE [a |-> a, d |-> d, e |-> e]

\* a/d rounded to the nearest integer, ties to even
RoundHalfEven(a, d) ==
  LET q == a \div d
      r == a % d
  IN  IF 2 * r < d THEN q
      ELSE IF 2 * r > d THEN q + 1
      ELSE IF q % 2 = 0 THEN q ELSE q + 1

\* the value a Float32Array element holds after floats[i] = x
fround(x) ==
  LET y == ToNumber(x)
  IN  IF y.d = 0 \/ y.n = 0 THEN y
      ELSE LET sc == ScaleToSignificand(Abs(y.n), y.d, 0)
               m == RoundHalfEven(sc.a, sc.d)
           IN  IF sc.e >= 0
               THEN Num(Sgn(y.n) * m, Pow2(sc.e))
               ELSE Num(Sgn(y.n) * m * Pow2(-sc.e), 1)

Float32Array(elems) == [kind |-> "float32array", elems |-> elems]

RECURSIVE Concat(_)
Concat(rows) ==
  IF Len(rows) = 0 THEN << >>
  ELSE (IF IsArray(Head(rows)) THEN Head(rows).elems ELSE << >>)
       \o Concat(Tail(rows))

\* new Float32Array(n), then the assignments in order; an assignment past the
\* end of the buffer is dropped and an unassigned element stays 0
FillFloats(n, values) ==
  Float32Array([i \in Upto(n) |->
                 IF i <= Len(values) THEN fround(values[i]) ELSE Lit(0)])

\* linearFlatten without the transposition of a tagged matrix
linearFlatten_RowMajor(v0) ==
  LET v == v0
      elemsAreArrays == IsArray(At(v, 0))
      n == IF elemsAreArrays THEN Length(v) * Length(At(v, 0)) ELSE Length(v)
  IN  IF elemsAreArrays THEN Return(FillFloats(n, Concat(v.elems)))
      ELSE Return(FillFloats(n, v.elems))

linearFlatten(v0) ==
  LET t == IF Tagged(v0) THEN transposeMatrix(v0) ELSE Return(v0)
      v == t.value
      elemsAreArrays == IsArray(At(v, 0))
      n == IF elemsAreArrays THEN Length(v) * Length(At(v, 0)) ELSE Length(v)
  IN  IF t.thrown THEN Throw
      ELSE IF elemsAreArrays THEN Return(FillFloats(n, Concat(v.elems)))
      ELSE Return(FillFloats(n, v.elems))

(***************************************************************************)
(* Determinants.                                                           *)
(***************************************************************************)
det2(m) ==
  Minus(Times(At2(m, 0, 0), At2(m, 1, 1)), Times(At2(m, 0, 1), At2(m, 1, 0)))

Times3(x, y, z) == Times(Times(x, y), z)

det3(m) ==
  Minus(Minus(Minus(Plus(Plus(
    Times3(At2(m, 0, 0), At2(m, 1, 1), At2(m, 2, 2)),
    Times3(At2(m, 0, 1), At2(m, 1, 2), At2(m, 2, 0))),
    Times3(At2(m, 0, 2), At2(m, 2, 1), At2(m, 1, 0))),
    Times3(At2(m, 2, 0), At2(m, 1, 1), At2(m, 0, 2))),
    Times3(At2(m, 1, 0), At2(m, 0, 1), At2(m, 2, 2))),
    Times3(At2(m, 0, 0), At2(m, 1, 2), At2(m, 2, 1)))

\* [vec2(m[r1][c1], m[r1][c2]), vec2(m[r2][c1], m[r2][c2])]
Rows2(m, r1, r2, c1, c2) ==
  Arr(<<vec2(<<At2(m, r1, c1), At2(m, r1, c2)>>),
        vec2(<<At2(m, r2, c1), At2(m, r2, c2)>>)>>, FALSE)

\* [vec3(m[r1][c1], m[r1][c2], m[r1][c3]), vec3(m[r2]...), vec3(m[r3]...)]
Rows3(m, r1, r2, r3, c1, c2, c3) ==
  Arr(<<vec3(<<At2(m, r1, c1), At2(m, r1, c2), At2(m, r1, c3)>>),
        vec3(<<At2(m, r2, c1), At2(m, r2, c2), At2(m, r2, c3)>>),
        vec3(<<At2(m, r3, c1), At2(m, r3, c2), At2(m, r3, c3)>>)>>, FALSE)

\* det4 with every term of the expansion added
det4_Unsigned(m) ==
  LET m0 == Rows3(m, 1, 2, 3, 1, 2, 3)
      m1 == Rows3(m, 1, 2, 3, 0, 2, 3)
      m2 == Rows3(m, 1, 2, 3, 0, 1, 3)
      m3 == Rows3(m, 1, 2, 3, 0, 1, 2)
  IN  Plus(Plus(Plus(Times(At2(m, 0, 0), det3(m0)),
                     Times(At2(m, 0, 1), det3(m1))),
                Times(At2(m, 0, 2), det3(m2))),
           Times(At2(m, 0, 3), det3(m3)))

det4(m) ==
  LET m0 == Rows3(m, 1, 2, 3, 1, 2, 3)
      m1 == Rows3(m, 1, 2, 3, 0, 2, 3)
      m2 == Rows3(m, 1, 2, 3, 0, 1, 3)
      m3 == Rows3(m, 1, 2, 3, 0, 1, 2)
  IN  Minus(Plus(Minus(Times(At2(m, 0, 0), det3(m0)),
                       Times(At2(m, 0, 1), det3(m1))),
                 Times(At2(m, 0, 2), det3(m2))),
            Times(At2(m, 0, 3), det3(m3)))

calculateDeterminant(m) ==
  LET value == IF Length(m) = 2 THEN det2(m)
               ELSE IF Length(m) = 3 THEN det3(m)
               ELSE IF Length(m) = 4 THEN det4(m)
               ELSE Undefined
  IN  IF ~Tagged(m) THEN ErrorThen(value) ELSE Return(value)

(***************************************************************************)
(* Inverses.                                                               *)
(***************************************************************************)
\* a = matN(); a[i][j] = rows[i][j] for every entry of a
WithEntries(a, rows) ==
  [a EXCEPT !.elems =
     [i \in 1..Len(a.elems) |-> [a.elems[i] EXCEPT !.elems = rows[i]]]]

\* inverse2 with the off-diagonal entries not negated
inverse2_Unsigned(m) ==
  LET d == det2(m)
  IN  WithEntries(mat2(<< >>),
        <<<<Over(At2(m, 1, 1), d), Over(At2(m, 0, 1), d)>>,
          <<Over(At2(m, 1, 0), d), Over(At2(m, 0, 0), d)>>>>)

inverse2(m) ==
  LET d == det2(m)
  IN  WithEntries(mat2(<< >>),
        <<<<Over(At2(m, 1, 1), d), Over(Negate(At2(m, 0, 1)), d)>>,
          <<Over(Negate(At2(m, 1, 0)), d), Over(At2(m, 0, 0), d)>>>>)

inverse3(m) ==
  LET d == det3(m)
      a00 == Rows2(m, 1, 2, 1, 2)
      a01 == Rows2(m, 1, 2, 0, 2)
      a02 == Rows2(m, 1, 2, 0, 1)
      a10 == Rows2(m, 0, 2, 1, 2)
      a11 == Rows2(m, 0, 2, 0, 2)
      a12 == Rows2(m, 0, 2, 0, 1)
      a20 == Rows2(m, 0, 1, 1, 2)
      a21 == Rows2(m, 0, 1, 0, 2)
      a22 == Rows2(m, 0, 1, 0, 1)
  IN  WithEntries(mat3(<< >>),
        <<<<Over(det2(a00), d), Over(Negate(det2(a10)), d),
                  Over(det2(a20), d)>>,
          <<Over(Negate(det2(a01)), d), Over(det2(a11), d),
                  Over(Negate(det2(a21)), d)>>,
          <<Over(det2(a02), d), Over(Negate(det2(a12)), d),
                  Over(det2(a22), d)>>>>)

inverse4(m) ==
  LET d == det4(m)
      a00 == Rows3(m, 1, 2, 3, 1, 2, 3)
      a01 == Rows3(m, 1, 2, 3, 0, 2, 3)
      a02 == Rows3(m, 1, 2, 3, 0, 1, 3)
      a03 == Rows3(m, 1, 2, 3, 0, 1, 2)
      a10 == Rows3(m, 0, 2, 3, 1, 2, 3)
      a11 == Rows3(m, 0, 2, 3, 0, 2, 3)
      a12 == Rows3(m, 0, 2, 3, 0, 1, 3)
      a13 == Rows3(m, 0, 2, 3, 0, 1, 2)
      a20 == Rows3(m, 0, 1, 3, 1, 2, 3)
      a21 == Rows3(m, 0, 1, 3, 0, 2, 3)
      a22 == Rows3(m, 0, 1, 3, 0, 1, 3)
      a23 == Rows3(m, 0, 1, 3, 0, 1, 2)
      a30 == Rows3(m, 0, 1, 2, 1, 2, 3)
      a31 == Rows3(m, 0, 1, 2, 0, 2, 3)
      a32 == Rows3(m, 0, 1, 2, 0, 1, 3)
      a33 == Rows3(m, 0, 1, 2, 0, 1, 2)
  IN  WithEntries(mat4(<< >>),
        <<<<Over(det3(a00), d), Over(Negate(det3(a10)), d),
                  Over(det3(a20), d), Over(Negate(det3(a30)), d)>>,
          <<Over(Negate(det3(a01)), d), Over(det3(a11), d),
                  Over(Negate(det3(a21)), d), Over(det3(a31), d)>>,
          <<Over(det3(a02), d), Over(Negate(det3(a12)), d),
                  Over(det3(a22), d), Over(Negate(det3(a32)), d)>>,
          <<Over(Negate(det3(a03)), d), Over(det3(a13), d),
                  Over(Negate(det3(a23)), d), Over(det3(a33), d)>>>>)

\* calculateInverseMatrix that reports a zero determinant and returns nothing
calculateInverseMatrix_SingularReported(m) ==
  LET value == IF Length(m) = 2 THEN inverse2(m)
               ELSE IF Length(m) = 3 THEN inverse3(m)
               ELSE IF Length(m) = 4 THEN inverse4(m)
               ELSE Undefined
  IN  IF m = Undefined THEN Throw
      ELSE IF ~Tagged(m) THEN ErrorThen(value)
      ELSE IF calculateDeterminant(m).value = Lit(0) THEN ErrorReturn
      ELSE Return(value)

calculateInverseMatrix(m) ==
  LET value == IF Length(m) = 2 THEN inverse2(m)
               ELSE IF Length(m) = 3 THEN inverse3(m)
               ELSE IF Length(m) = 4 THEN inverse4(m)
               ELSE Undefined
  IN  IF m = Undefined THEN Throw
      ELSE IF ~Tagged(m) THEN ErrorThen(value) ELSE Return(value)

\* the upper-left 3 x 3 entries of a copied into mat3(); a[i][j] with a[i]
\* undefined is a TypeError
UpperLeft(a) ==
  IF Length(a) < 3 THEN Throw
  ELSE Return(WithEntries(mat3(<< >>),
                          [i \in 1..3 |-> [j \in 1..3 |-> At2(a, i - 1, j - 1)]]))

\* normalizeMatrix that inverts m itself
normalizeMatrix_Untransposed(m, flag) ==
  Then(calculateInverseMatrix(m), LAMBDA a :
    IF flag # Bool(TRUE) /\ flag # Lit(1) THEN Return(a) ELSE UpperLeft(a))

\* flag != true is false for true and for 1
normalizeMatrix(m, flag) ==
  Then(transposeMatrix(m), LAMBDA t :
  Then(calculateInverseMatrix(t), LAMBDA a :
    IF flag # Bool(TRUE) /\ flag # Lit(1) THEN Return(a) ELSE UpperLeft(a)))

(***************************************************************************)
(* Projection matrix generators.                                           *)
(***************************************************************************)
\* the matrix built once the three guards have passed
OrthographicMatrix(left, right, bottom, top, near, far) ==
  LET w == Minus(right, left)
      h == Minus(top, bottom)
      d == Minus(far, near)
      r0 == mat4(<< >>)
      r1 == SetAt2(r0, 0, 0, Over(Lit(2), w))
      r2 == SetAt2(r1, 1, 1, Over(Lit(2), h))
      r3 == SetAt2(r2, 2, 2, Over(Lit(-2), d))
      r4 == SetAt2(r3, 0, 3, Over(Negate(Plus(left, right)), w))
      r5 == SetAt2(r4, 1, 3, Over(Negate(Plus(top, bottom)), h))
  IN  SetAt2(r5, 2, 3, Over(Negate(Plus(near, far)), d))

\* buildOrthographicMatrix without the guard on near and far
buildOrthographicMatrix_NoDepthGuard(left, right, bottom, top, near, far) ==
  IF NumEq(left, right) THEN Throw
  ELSE IF NumEq(bottom, top) THEN Throw
  ELSE Return(OrthographicMatrix(left, right, bottom, top, near, far))

buildOrthographicMatrix(left, right, bottom, top, near, far) ==
  IF NumEq(left, right) THEN Throw
  ELSE IF NumEq(bottom, top) THEN Throw
  ELSE IF NumEq(near, far) THEN Throw
  ELSE Return(OrthographicMatrix(left, right, bottom, top, near, far))

\* buildPerspectiveMatrix with the depth guard of buildOrthographicMatrix
buildPerspectiveMatrix_DepthGuarded(fovY, aspect, near, far) ==
  IF NumEq(near, far) THEN Throw
  ELSE LET f == Over(Lit(1), MathTan(Over(degreesToRadians(fovY), Lit(2))))
           d == Minus(far, near)
           r0 == mat4(<< >>)
           r1 == SetAt2(r0, 0, 0, Over(f, aspect))
           r2 == SetAt2(r1, 1, 1, f)
           r3 == SetAt2(r2, 2, 2, Over(Negate(Plus(near, far)), d))
           r4 == SetAt2(r3, 2, 3, Over(Times(Times(Lit(-2), near), far), d))
           r5 == SetAt2(r4, 3, 2, Lit(-1))
       IN  Return(SetAt2(r5, 3, 3, Lit(0)))

buildPerspectiveMatrix(fovY, aspect, near, far) ==
  LET f == Over(Lit(1), MathTan(Over(degreesToRadians(fovY), Lit(2))))
      d == Minus(far, near)
      r0 == mat4(<< >>)
      r1 == SetAt2(r0, 0, 0, Over(f, aspect))
      r2 == SetAt2(r1, 1, 1, f)
      r3 == SetAt2(r2, 2, 2, Over(Negate(Plus(near, far)), d))
      r4 == SetAt2(r3, 2, 3, Over(Times(Times(Lit(-2), near), far), d))
      r5 == SetAt2(r4, 3, 2, Lit(-1))
  IN  Return(SetAt2(r5, 3, 3, Lit(0)))

(***************************************************************************)
(* Random numbers and colours (src/1_Assignment_1/.shared.js).             *)
(***************************************************************************)
\* x < y on numbers
Less(x, y) ==
  /\ ~IsNaN(x) /\ ~IsNaN(y) /\ x # y
  /\ IF x.d = 0 THEN x.n < 0
     ELSE IF y.d = 0 THEN y.n > 0
     ELSE x.n * y.d < y.n * x.d

\* Math.round: the nearest whole number, a half rounded up
MathRound(x) ==
  IF ~IsFinite(x) THEN x ELSE Lit((2 * x.n + x.d) \div (2 * x.d))

MathMax(x, y) ==
  IF IsNaN(x) \/ IsNaN(y) THEN NaN ELSE IF Less(x, y) THEN y ELSE x

\* mathRandom is the value Math.random() returns to the call
randomNumber(roundResult, maximumValue, minimumValue, mathRandom) ==
  IF Truthy(roundResult)
  THEN Plus(MathRound(Times(mathRandom, maximumValue)), minimumValue)
  ELSE Plus(Times(mathRandom, maximumValue), minimumValue)

minimumAlpha == Lit(1)

\* a maximum colour sum with a digit mistyped
maximumColorSum_Low == Num(165, 100)

maximumColorSum == Num(265, 100)

(***************************************************************************)
(* The arguments the calls are made with.                                  *)
(***************************************************************************)
Dims == {2, 3, 4}

Entries == (0 - MaxEntry)..MaxEntry

Comps == 0..MaxComp

\* the argument list a, a+1, ..., a+k-1
Ramp(k, a) == [i \in 1..k |-> Lit(a + i - 1)]

\* dense matrices with no symmetry, no zero determinant
Dense(d) ==
  IF d = 2 THEN mat2(<<Lit(1), Lit(2), Lit(3), Lit(4)>>)
  ELSE IF d = 3
  THEN mat3(<<Lit(2), Lit(-1), Lit(0),
              Lit(1), Lit(3), Lit(2),
              Lit(-2), Lit(1), Lit(1)>>)
  ELSE mat4(<<Lit(1), Lit(2), Lit(0), Lit(-1),
              Lit(3), Lit(1), Lit(2), Lit(0),
              Lit(0), Lit(-2), Lit(1), Lit(3),
              Lit(2), Lit(0), Lit(-1), Lit(1)>>)

\* the zero matrix, the identity and the dense matrix of dimension d
Bases(d) == {matN(d, <<Lit(0)>>), matN(d, << >>), Dense(d)}

\* the tagged d x d matrices: a base with one entry replaced
Mats(d) ==
  {SetAt2(b, p, q, Lit(e)) :
     b \in Bases(d), p \in 0..(d - 1), q \in 0..(d - 1), e \in Entries}

AllMats == UNION {Mats(d) : d \in Dims}

\* the vectors <<x, y, x + y, x * y + 1>> cut to n components
Vecs(n) ==
  {Arr(FirstN(<<Lit(x), Lit(y), Lit(x + y), Lit(x * y + 1)>>, n), FALSE) :
     x \in Comps, y \in Comps}

AllVecs == UNION {Vecs(n) : n \in Dims}

\* tagged matrices whose rows are not of the matrix's dimension
Ragged ==
  {Arr(<<Arr(Ramp(3, 0), FALSE), Arr(Ramp(3, 1), FALSE)>>, TRUE),
   Arr(<<Arr(Ramp(2, 0), FALSE), Arr(Ramp(3, 1), FALSE)>>, TRUE)}

\* the matrices the binary operations are called with
PairMats ==
  UNION {{matN(d, << >>), Dense(d)}
         \cup {SetAt2(Dense(d), 0, 1, Lit(c)) : c \in Comps} : d \in Dims}

\* the operands of the binary operations
Operands == AllVecs \cup PairMats \cup Ragged

\* the pairs linearMultiply is called with
MultiplyPairs ==
  (Operands \X Operands)
  \cup UNION {{matN(d, << >>)} \X Mats(d) : d \in Dims}
  \cup UNION {Mats(d) \X {matN(d, << >>)} : d \in Dims}

\* numbers that are no 32-bit floats: 2^24 + 1 and its half
Unrepresentable ==
  {Lit(Pow2(SignificandBits) + 1), Num(Pow2(SignificandBits) + 1, 2)}

FlattenArgs ==
  AllVecs \cup AllMats
  \cup {Arr(<<Lit(c), x>>, FALSE) : c \in Comps, x \in Unrepresentable}
  \cup {SetAt2(Dense(d), 0, 1, x) : d \in Dims, x \in Unrepresentable}
  \cup {Arr(<<v, w>>, FALSE) : v \in Vecs(4), w \in Vecs(4)}

Scalars == {Lit(e) : e \in Entries}

\* the third argument of mixVectors: two numbers, and the argument left out
Weights == {Lit(-1), Lit(MaxEntry), Undefined}

\* untagged copies of the dense matrices
Untagged(m) == [m EXCEPT !.matrix = FALSE]

DeterminantArgs == AllMats \cup {Untagged(Dense(d)) : d \in Dims} \cup Vecs(3)

\* the triples of numbers given as offsets and as scale factors
Triples ==
  {<<Lit(x), Lit(y), Lit(z)>> : x \in Entries, y \in Entries, z \in Entries}
  \cup {Ramp(3, 1), Ramp(3, 2)}

\* the angles in degrees: whole quarter turns
Angles == {Lit(90 * q) : q \in Entries}

\* the positions and directions of the camera
Positions ==
  {Arr(<<Lit(x), Lit(y), Lit(z)>>, FALSE) : x \in Comps, y \in Comps, z \in Comps}

\* values that are no array of three components
NotVec3 == {Undefined, Lit(1), vec2(<< >>), vec4(<< >>)}

HasRationalLength(u) == HasRationalRoot(dotProduct(u, u).value)

\* the square roots viewMatrixAt takes of eye, at, up are rational
HasRationalView(eye, at, up) ==
  LET difference == linearSubtract(at, eye).value
      v == normalizeVectors(difference, Undefined).value
  IN  /\ HasRationalLength(difference)
      /\ HasRationalLength(crossProduct(v, up).value)

\* the calls of viewMatrixAt with three vec3
ViewArgs ==
  {t \in Positions \X Positions \X Vecs(3) : HasRationalView(t[1], t[2], t[3])}

\* the calls of viewMatrixAt where the argument at position k is no vec3
BadViewArgs ==
  {[t EXCEPT ![k] = bad] :
     t \in (Vecs(3) \cup {Undefined}) \X (Vecs(3) \cup {Undefined})
           \X (Vecs(3) \cup {Undefined}),
     k \in 1..3, bad \in NotVec3}

\* the matrices normalizeMatrix is called with
NormalArgs == Mats(4) \cup {Dense(3), Dense(2), Untagged(Dense(4))}

Flags == {Bool(TRUE), Bool(FALSE), Lit(1)}

\* the rotation axes: the triples of rational length
Axes == {t \in Triples : HasRationalLength(Arr(t, FALSE))}

\* the fields of view whose half angle has a tangent
Fields == {a \in Angles : Eighths(Over(degreesToRadians(a), Lit(2))) % 4 # 2}

\* a vector with an infinite component
Unbounded == Arr(<<Num(1, 0), Lit(0), Lit(0)>>, FALSE)

\* the calls of normalizeVectors: vectors of three and four components, the
\* flag left out or set, the length taken being rational
NormalizeArgs ==
  {c \in ({Arr(t, FALSE) : t \in Axes}
           \cup {Arr(Append(t, Lit(MaxEntry)), FALSE) : t \in Axes}
           \cup {Unbounded})
          \X {Undefined, Bool(TRUE)} :
     HasRationalLength(IF Truthy(c[2]) THEN Popped(c[1]) ELSE c[1])}

(***************************************************************************)
(* The state machine: one action per library function.                     *)
(***************************************************************************)
Init ==
  /\ pc = "ready"
  /\ op = "none"
  /\ args = << >>
  /\ result = Undefined
  /\ errors = 0
  /\ thrown = FALSE
  /\ argsLeft = << >>
  /\ drawn = << >>
  /\ color = Undefined
  /\ currentOverage = Undefined
  /\ randomColorIndex = Undefined
  /\ elements = {}
  /\ calls = << >>
  /\ shown = << >>
  /\ tried = 0
  /\ context = Null
  /\ cubeAxis = 0
  /\ cubeTheta = <<Lit(0), Lit(0), Lit(0)>>
  /\ frames = 0

\* a call that may write into its arguments, which it leaves as after
CallWriting(name, a, out, after) ==
  /\ pc = "ready"
  /\ pc' = "returned"
  /\ op' = name
  /\ args' = a
  /\ result' = out.value
  /\ errors' = out.errors
  /\ thrown' = out.thrown
  /\ argsLeft' = after
  /\ UNCHANGED <<colorVars, webglVars, cubeVars>>

\* a call of a function that has no write into its arguments
Call(name, a, out) == CallWriting(name, a, out, a)

\* vec2(...), vec3(...), vec4(...) with k scalar arguments or one array
VecConstructor ==
  \E n \in Dims, k \in 0..5, a \in Comps :
    \/ Call("vec", <<Lit(n)>> \o Ramp(k, a), Return(vecN(n, Ramp(k, a))))
    \/ Call("vec", <<Lit(n), Arr(Ramp(k, a), FALSE)>>,
            Return(vecN(n, <<Arr(Ramp(k, a), FALSE)>>)))

\* mat2(...), mat3(...), mat4(...) with k scalar arguments
MatConstructor ==
  \E d \in Dims, k \in 0..17, a \in Comps :
    /\ k <= d * d + 1
    /\ Call("mat", <<Lit(d)>> \o Ramp(k, a), Return(matN(d, Ramp(k, a))))

LinearEquivalence ==
  \E u \in Operands, v \in Operands :
    Call("linearEquivalence", <<u, v>>, Return(Bool(linearEquivalence(u, v))))

LinearAddition ==
  \E u \in Operands, v \in Operands :
    Call("linearAddition", <<u, v>>, linearAddition(u, v))

LinearSubtract ==
  \E u \in Operands, v \in Operands :
    Call("linearSubtract", <<u, v>>, linearSubtract(u, v))

LinearMultiply ==
  \E p \in MultiplyPairs :
    Call("linearMultiply", <<p[1], p[2]>>, linearMultiply(p[1], p[2]))

TransposeMatrix ==
  \E m \in AllMats \cup Ragged \cup Vecs(2) :
    Call("transposeMatrix", <<m>>, transposeMatrix(m))

DotProduct ==
  \E u \in AllVecs, v \in AllVecs :
    Call("dotProduct", <<u, v>>, dotProduct(u, v))

CrossProduct ==
  \E u \in AllVecs \cup Scalars, v \in AllVecs \cup Scalars :
    Call("crossProduct", <<u, v>>, crossProduct(u, v))

MixVectors ==
  \E u \in AllVecs, v \in AllVecs, s \in Weights :
    Call("mixVectors", <<u, v, s>>, mixVectors(u, v, s))

LinearScale ==
  \E s \in Scalars, u \in AllVecs \cup PairMats \cup Scalars :
    Call("linearScale", <<s, u>>, linearScale(s, u))

LinearFlatten ==
  \E v \in FlattenArgs :
    Call("linearFlatten", <<v>>, linearFlatten(v))

CalculateDeterminant ==
  \E m \in DeterminantArgs :
    Call("calculateDeterminant", <<m>>, calculateDeterminant(m))

CalculateInverseMatrix ==
  \E m \in DeterminantArgs :
    Call("calculateInverseMatrix", <<m>>, calculateInverseMatrix(m))

BuildOrthographicMatrix ==
  \E left \in Comps, right \in Comps, bottom \in Comps, top \in Comps,
     near \in Comps, far \in Comps :
    Call("buildOrthographicMatrix",
         <<Lit(left), Lit(right), Lit(bottom), Lit(top), Lit(near), Lit(far)>>,
         buildOrthographicMatrix(Lit(left), Lit(right), Lit(bottom), Lit(top),
                                 Lit(near), Lit(far)))

\* translateMatrix(x, y, z) and translateMatrix([x, y, z])
TranslateMatrix ==
  \E t \in Triples :
    \/ Call("translateMatrix", t, translateMatrix(t[1], t[2], t[3]))
    \/ Call("translateMatrix", <<Arr(t, FALSE)>>,
            translateMatrix(Arr(t, FALSE), Undefined, Undefined))

\* scalingMatrix(x, y, z) and scalingMatrix([x, y, z])
ScalingMatrix ==
  \E t \in Triples :
    \/ Call("scalingMatrix", t, scalingMatrix(t[1], t[2], t[3]))
    \/ Call("scalingMatrix", <<Arr(t, FALSE)>>,
            scalingMatrix(Arr(t, FALSE), Undefined, Undefined))

RotateX ==
  \E theta \in Angles : Call("rotateX", <<theta>>, rotateX(theta))

RotateY ==
  \E theta \in Angles : Call("rotateY", <<theta>>, rotateY(theta))

RotateZ ==
  \E theta \in Angles : Call("rotateZ", <<theta>>, rotateZ(theta))

ViewMatrixAt ==
  \E t \in ViewArgs \cup BadViewArgs :
    Call("viewMatrixAt", t, viewMatrixAt(t[1], t[2], t[3]))

NormalizeMatrix ==
  \E m \in NormalArgs, flag \in Flags :
    Call("normalizeMatrix", <<m, flag>>, normalizeMatrix(m, flag))

\* rotateMatrix(angle, [x, y, z]) and rotateMatrix(angle, x, y, z)
RotateMatrix ==
  \E angle \in Angles, t \in Axes :
    \/ CallWriting("rotateMatrix", <<angle, Arr(t, FALSE)>>,
                   rotateMatrix(angle, Arr(t, FALSE), Undefined, Undefined),
                   <<angle, rotateMatrixLeaves(Arr(t, FALSE))>>)
    \/ Call("rotateMatrix", <<angle>> \o t, rotateMatrix(angle, t[1], t[2], t[3]))

NormalizeVectors ==
  \E c \in NormalizeArgs :
    CallWriting("normalizeVectors", c, normalizeVectors(c[1], c[2]),
                <<normalizeVectorsLeaves(c[1], c[2]), c[2]>>)

BuildPerspectiveMatrix ==
  \E fovY \in Fields, aspect \in Comps, near \in Comps, far \in Comps :
    Call("buildPerspectiveMatrix", <<fovY, Lit(aspect), Lit(near), Lit(far)>>,
         buildPerspectiveMatrix(fovY, Lit(aspect), Lit(near), Lit(far)))

Next ==
  \/ VecConstructor
  \/ MatConstructor
  \/ LinearEquivalence
  \/ LinearAddition
  \/ LinearSubtract
  \/ LinearMultiply
  \/ TransposeMatrix
  \/ DotProduct
  \/ CrossProduct
  \/ MixVectors
  \/ LinearScale
  \/ LinearFlatten
  \/ CalculateDeterminant
  \/ CalculateInverseMatrix
  \/ BuildOrthographicMatrix
  \/ TranslateMatrix
  \/ ScalingMatrix
  \/ RotateX
  \/ RotateY
  \/ RotateZ
  \/ ViewMatrixAt
  \/ NormalizeMatrix
  \/ RotateMatrix
  \/ BuildPerspectiveMatrix
  \/ NormalizeVectors

Spec == Init /\ [][Next]_vars

(***************************************************************************)
(* randomNumber and randomRGBAColor, statement by statement.  Math.random  *)
(* returns one of the numbers k / Steps below 1.                           *)
(***************************************************************************)
Randoms == {Num(k, Steps) : k \in 0..(Steps - 1)}

\* the bounds randomNumber is called with: 0 <= minimumValue <= maximumValue
RandomBounds ==
  {b \in {Lit(0), Num(1, 2), Lit(1), Lit(2)} \X {Lit(0), Num(1, 2), Lit(1), Lit(2)} :
     ~Less(b[1], b[2])}

RandomNumber ==
  /\ pc = "ready"
  /\ \E roundResult \in {Bool(TRUE), Bool(FALSE)}, b \in RandomBounds,
        mathRandom \in Randoms :
       /\ drawn' = <<mathRandom>>
       /\ args' = <<roundResult, b[1], b[2]>>
       /\ result' = randomNumber(roundResult, b[1], b[2], mathRandom)
  /\ op' = "randomNumber"
  /\ pc' = "returned"
  /\ argsLeft' = args'
  /\ UNCHANGED <<errors, thrown, color, currentOverage, randomColorIndex>>
  /\ UNCHANGED <<webglVars, cubeVars>>

\* var color = {red: randomNumber(), ..., alpha: Math.max(randomNumber(), minimumAlpha)}
\* with Math.random() returning numbers of the set S, and of A for alpha
DrawColorFrom(S, A) ==
  /\ pc = "ready"
  /\ \E red \in S, green \in S, blue \in S, alpha \in A :
       /\ drawn' = <<red, green, blue, alpha>>
       /\ color' = [red |-> randomNumber(Bool(FALSE), Lit(1), Lit(0), red),
                    green |-> randomNumber(Bool(FALSE), Lit(1), Lit(0), green),
                    blue |-> randomNumber(Bool(FALSE), Lit(1), Lit(0), blue),
                    alpha |-> MathMax(randomNumber(Bool(FALSE), Lit(1), Lit(0), alpha),
                                      minimumAlpha)]
  /\ op' = "randomRGBAColor"
  /\ pc' = "if"
  /\ UNCHANGED <<args, result, errors, thrown, argsLeft, currentOverage,
                 randomColorIndex, webglVars, cubeVars>>

DrawColor == DrawColorFrom(Randoms, {Lit(0), Num(Steps - 1, Steps)})

ColorSum == Plus(Plus(color.red, color.green), color.blue)

\* if (color.red + color.green + color.blue > maximumColorSum)
TestSum ==
  /\ pc = "if"
  /\ IF Less(maximumColorSum, ColorSum)
     THEN /\ currentOverage' = Minus(ColorSum, maximumColorSum)
          /\ pc' = "while"
     ELSE /\ pc' = "return"
          /\ UNCHANGED currentOverage
  /\ UNCHANGED <<op, args, result, errors, thrown, argsLeft, drawn, color,
                 randomColorIndex, webglVars, cubeVars>>

\* while (currentOverage > 0) { const randomColorIndex = randomNumber(true, 2, 0);
TestOverage ==
  /\ pc = "while"
  /\ IF Less(Lit(0), currentOverage)
     THEN /\ \E mathRandom \in Randoms :
               randomColorIndex' = randomNumber(Bool(TRUE), Lit(2), Lit(0), mathRandom)
          /\ pc' = "reduce"
     ELSE /\ pc' = "return"
          /\ UNCHANGED randomColorIndex
  /\ UNCHANGED <<op, args, result, errors, thrown, argsLeft, drawn, color,
                 currentOverage, webglVars, cubeVars>>

\* a branch that empties the channel whatever the overage
Reduce_ToZero(channel) ==
  /\ color' = [color EXCEPT ![channel] = Lit(0)]
  /\ currentOverage' = Lit(0)

\* the branch of one channel
Reduce(channel) ==
  IF Less(color[channel], currentOverage)
  THEN /\ currentOverage' = Minus(currentOverage, color[channel])
       /\ color' = [color EXCEPT ![channel] = Lit(0)]
  ELSE /\ color' = [color EXCEPT ![channel] = Minus(@, currentOverage)]
       /\ currentOverage' = Lit(0)

\* the body of the loop after the choice of the channel
ReduceColor ==
  /\ pc = "reduce"
  /\ IF NumEq(randomColorIndex, Lit(0)) THEN Reduce("red")
     ELSE IF NumEq(randomColorIndex, Lit(1)) THEN Reduce("green")
     ELSE Reduce("blue")
  /\ pc' = "while"
  /\ UNCHANGED <<op, args, result, errors, thrown, argsLeft, drawn,
                 randomColorIndex, webglVars, cubeVars>>

\* return color
ReturnColor ==
  /\ pc = "return"
  /\ result' = color
  /\ pc' = "returned"
  /\ UNCHANGED <<op, args, errors, thrown, argsLeft, colorVars, webglVars, cubeVars>>

ColorNext ==
  \/ RandomNumber
  \/ DrawColor
  \/ TestSum
  \/ TestOverage
  \/ ReduceColor
  \/ ReturnColor

ColorSpec == Init /\ [][ColorNext]_vars

\* the least and the greatest number Math.random() returns, and the least
\* that goes with two greatest ones into a sum above 2.65
Extremes == {Lit(0), Num(Steps - 4, Steps), Num(Steps - 1, Steps)}

DrawExtremeColor == DrawColorFrom(Extremes, {Num(Steps - 1, Steps)})

ColorRunNext ==
  \/ DrawExtremeColor
  \/ TestSum
  \/ TestOverage
  \/ ReduceColor
  \/ ReturnColor

\* randomRGBAColor as a running call: a call that has started runs on to
\* its return unless it loops
ColorRun == Init /\ [][ColorRunNext]_vars /\ WF_vars(ColorRunNext)

(***************************************************************************)
(* initShaders, setupWebGL and create3DContext of .shared.js, stage by     *)
(* stage.  The browser answers each access as it pleases; the canvas and   *)
(* its parent exist, so that showErrorText shows its message.              *)
(***************************************************************************)
\* an access to the browser and its answer
Access(fn, arg, returned) == [fn |-> fn, arg |-> arg, returned |-> returned]

Str(s) == [kind |-> "string", s |-> s]

Object(name) == [kind |-> "object", name |-> name]

ShaderIds == {"vertex-shader", "fragment-shader"}

\* initShaders(gl, vertexShaderId, fragmentShaderId) in a document holding
\* the elements present
InitShaders ==
  /\ pc = "ready"
  /\ \E vertexShaderId \in ShaderIds, fragmentShaderId \in ShaderIds,
        present \in SUBSET ShaderIds :
       /\ args' = <<Object("gl"), Str(vertexShaderId), Str(fragmentShaderId)>>
       /\ elements' = present
  /\ op' = "initShaders"
  /\ pc' = "vertexElement"
  /\ UNCHANGED <<result, errors, thrown, argsLeft, calls, shown, tried, context,
                 colorVars, cubeVars>>

\* showErrorText(message); return null
ShowAndReturnNull(message) ==
  /\ shown' = Append(shown, message)
  /\ result' = Null
  /\ pc' = "returned"

\* document.getElementById(id); if the element is missing, the message
GetShaderElement(id, message, next) ==
  IF id \in elements
  THEN /\ calls' = Append(calls, Access("getElementById", id, "element"))
       /\ pc' = next
       /\ UNCHANGED <<shown, result>>
  ELSE /\ calls' = Append(calls, Access("getElementById", id, "null"))
       /\ ShowAndReturnNull(message)

\* a compile stage that shows its message and goes on to the next stage
CompileShader_NoReturn(type, message, next) ==
  \E status \in {"true", "false"} :
    /\ calls' = calls \o <<Access("createShader", type, "shader"),
                           Access("shaderSource", type, ""),
                           Access("compileShader", type, ""),
                           Access("getShaderParameter", type, status)>>
                      \o (IF status = "true" THEN << >>
                          ELSE <<Access("getShaderInfoLog", type, "log")>>)
    /\ shown' = (IF status = "true" THEN shown ELSE Append(shown, message))
    /\ pc' = next
    /\ UNCHANGED result

\* gl.createShader(type) ... if (!gl.getShaderParameter(shader, gl.COMPILE_STATUS))
CompileShader(type, message, next) ==
  \E status \in {"true", "false"} :
    IF status = "true"
    THEN /\ calls' = calls \o <<Access("createShader", type, "shader"),
                                Access("shaderSource", type, ""),
                                Access("compileShader", type, ""),
                                Access("getShaderParameter", type, status)>>
         /\ pc' = next
         /\ UNCHANGED <<shown, result>>
    ELSE /\ calls' = calls \o <<Access("createShader", type, "shader"),
                                Access("shaderSource", type, ""),
                                Access("compileShader", type, ""),
                                Access("getShaderParameter", type, status),
                                Access("getShaderInfoLog", type, "log")>>
         /\ ShowAndReturnNull(message)

ShaderFrame ==
  UNCHANGED <<op, args, errors, thrown, argsLeft, elements, tried, context,
              colorVars, cubeVars>>

VertexElement ==
  /\ pc = "vertexElement"
  /\ GetShaderElement(args[2].s, "Unable to load vertex shader " \o args[2].s \o ".",
                      "vertexCompile")
  /\ ShaderFrame

VertexCompile ==
  /\ pc = "vertexCompile"
  /\ CompileShader("VERTEX_SHADER",
                   "Vertex shader failed to compile.  The error log is:<pre>log</pre>",
                   "fragElem")
  /\ ShaderFrame

\* the message for a missing fragment element says vertex shader too
FragElem ==
  /\ pc = "fragElem"
  /\ GetShaderElement(args[3].s, "Unable to load vertex shader " \o args[3].s \o ".",
                      "fragmentCompile")
  /\ ShaderFrame

FragmentCompile ==
  /\ pc = "fragmentCompile"
  /\ CompileShader("FRAGMENT_SHADER",
                   "Fragment shader failed to compile.  The error log is:<pre>log</pre>",
                   "link")
  /\ ShaderFrame

\* gl.createProgram() ... if (!gl.getProgramParameter(program, gl.LINK_STATUS))
LinkProgram ==
  /\ pc = "link"
  /\ \E status \in {"true", "false"} :
       IF status = "true"
       THEN /\ calls' = calls \o <<Access("createProgram", "", "program"),
                                   Access("attachShader", "VERTEX_SHADER", ""),
                                   Access("attachShader", "FRAGMENT_SHADER", ""),
                                   Access("linkProgram", "", ""),
                                   Access("getProgramParameter", "", status)>>
            /\ result' = Object("program")
            /\ pc' = "returned"
            /\ UNCHANGED shown
       ELSE /\ calls' = calls \o <<Access("createProgram", "", "program"),
                                   Access("attachShader", "VERTEX_SHADER", ""),
                                   Access("attachShader", "FRAGMENT_SHADER", ""),
                                   Access("linkProgram", "", ""),
                                   Access("getProgramParameter", "", status),
                                   Access("getProgramInfoLog", "", "log")>>
            /\ ShowAndReturnNull("Shader program failed to link.  The error log is:<pre>log</pre>")
  /\ ShaderFrame

names == <<"webgl", "experimental-webgl", "webkit-3d", "moz-webgl">>

ContextFrame ==
  UNCHANGED <<args, errors, thrown, argsLeft, elements, colorVars, cubeVars>>

\* WebGLUtils.create3DContext() up to its loop
Create3DContext ==
  /\ pc = "ready"
  /\ op' = "create3DContext"
  /\ calls' = <<Access("getElementById", "gl-canvas", "element")>>
  /\ pc' = "getContext"
  /\ UNCHANGED <<result, shown, tried, context>>
  /\ ContextFrame

\* WebGLUtils.setupWebGL() up to the loop of create3DContext
SetupWebGL ==
  /\ pc = "ready"
  /\ op' = "setupWebGL"
  /\ \E supported \in {"function", "undefined"} :
       IF supported = "undefined"
       THEN /\ calls' = <<Access("getElementById", "gl-canvas", "element"),
                          Access("window.WebGLRenderingContext", "", supported)>>
            /\ ShowAndReturnNull("GET_A_WEBGL_BROWSER")
       ELSE /\ calls' = <<Access("getElementById", "gl-canvas", "element"),
                          Access("window.WebGLRenderingContext", "", supported),
                          Access("getElementById", "gl-canvas", "element")>>
            /\ pc' = "getContext"
            /\ UNCHANGED <<shown, result>>
  /\ UNCHANGED <<tried, context>>
  /\ ContextFrame

\* one pass of the loop in which a throwing getContext ends the loop
GetContext_ThrowBreaks ==
  /\ pc = "getContext"
  /\ \E answer \in {"context", "null", "throws"} :
       /\ calls' = Append(calls, Access("getContext", names[tried + 1], answer))
       /\ context' = (IF answer = "context" THEN Object(names[tried + 1])
                      ELSE IF answer = "null" THEN Null ELSE context)
       /\ IF answer # "null"
          THEN pc' = "returnContext" /\ tried' = tried
          ELSE /\ tried' = tried + 1
               /\ pc' = (IF tried + 1 < Len(names) THEN "getContext"
                         ELSE "returnContext")
  /\ UNCHANGED <<op, result, shown>>
  /\ ContextFrame

\* one pass of the loop: try { context = canvas.getContext(names[i], ...) }
\* catch (e) { }  if (context) break;  and ++i
GetContext ==
  /\ pc = "getContext"
  /\ \E answer \in {"context", "null", "throws"} :
       /\ calls' = Append(calls, Access("getContext", names[tried + 1], answer))
       /\ context' = (IF answer = "context" THEN Object(names[tried + 1])
                      ELSE IF answer = "null" THEN Null ELSE context)
       /\ IF answer = "context"
          THEN pc' = "returnContext" /\ tried' = tried
          ELSE /\ tried' = tried + 1
               /\ pc' = (IF tried + 1 < Len(names) THEN "getContext"
                         ELSE "returnContext")
  /\ UNCHANGED <<op, result, shown>>
  /\ ContextFrame

\* return context, after if (!context) showErrorText(HARDWARE_PROBLEM) in
\* setupWebGL
ReturnContext ==
  /\ pc = "returnContext"
  /\ shown' = (IF op = "setupWebGL" /\ context = Null
               THEN Append(shown, "HARDWARE_PROBLEM") ELSE shown)
  /\ result' = context
  /\ pc' = "returned"
  /\ UNCHANGED <<op, calls, tried, context>>
  /\ ContextFrame

WebGLNext ==
  \/ InitShaders
  \/ VertexElement
  \/ VertexCompile
  \/ FragElem
  \/ FragmentCompile
  \/ LinkProgram
  \/ Create3DContext
  \/ SetupWebGL
  \/ GetContext
  \/ ReturnContext

WebGLSpec == Init /\ [][WebGLNext]_vars

(***************************************************************************)
(* The cube of shape-editor.js: init, the three buttons and the frames.    *)
(* op names the handler the page ran last (init or a button); frames       *)
(* counts the calls of render the browser has been asked for and has not   *)
(* made yet.                                                               *)
(***************************************************************************)
xAxis == 0

yAxis == 1

zAxis == 2

\* the frames a run renders at most
MaxFrames == 6

\* the frames rendered so far: every one added 2 to one angle
Rendered == (cubeTheta[1].n + cubeTheta[2].n + cubeTheta[3].n) \div 2

CubeFrame == UNCHANGED <<args, result, errors, argsLeft, colorVars, webglVars>>

\* render with theta[1] in the place of theta[axis]
render_AlwaysY(pending) ==
  /\ cubeTheta' = [cubeTheta EXCEPT ![yAxis + 1] = Plus(@, Lit(2))]
  /\ frames' = pending + 1

\* theta[axis] += 2.0; ... requestAnimFrame(render);
render(pending) ==
  /\ cubeTheta' = [cubeTheta EXCEPT ![cubeAxis + 1] = Plus(@, Lit(2))]
  /\ frames' = pending + 1

\* window.onload: without the canvas init returns; without a context or a
\* program it throws at gl.viewport or gl.getAttribLocation; else it sets
\* the handlers of the buttons and calls render
OnLoad ==
  /\ pc = "ready"
  /\ op' = "init"
  /\ \E outcome \in {"no canvas", "throws", "started"} :
       IF outcome = "started"
       THEN /\ render(frames)
            /\ pc' = "running"
            /\ UNCHANGED thrown
       ELSE /\ pc' = "returned"
            /\ thrown' = (outcome = "throws")
            /\ UNCHANGED <<cubeTheta, frames>>
  /\ UNCHANGED cubeAxis
  /\ CubeFrame

\* onclick = function () { axis = ...; }
Click(button, chosen) ==
  /\ pc = "running"
  /\ op' = button
  /\ cubeAxis' = chosen
  /\ UNCHANGED <<pc, thrown, cubeTheta, frames>>
  /\ CubeFrame

XButton == Click("xButton", xAxis)

YButton == Click("yButton", yAxis)

ZButton == Click("zButton", zAxis)

\* the browser calls render for a frame it was asked for
Frame ==
  /\ pc = "running"
  /\ frames > 0
  /\ Rendered < MaxFrames
  /\ render(frames - 1)
  /\ UNCHANGED <<pc, op, thrown, cubeAxis>>
  /\ CubeFrame

CubeNext ==
  \/ OnLoad
  \/ XButton
  \/ YButton
  \/ ZButton
  \/ Frame

CubeSpec == Init /\ [][CubeNext]_vars

(***************************************************************************)
(* Properties.                                                             *)
(***************************************************************************)
Returned(name) == pc = "returned" /\ op = name

IsWhole(x) == IsNumber(x) /\ x.d = 1

\* an untagged array of n numbers
IsVector(u, n) ==
  /\ IsArray(u) /\ ~u.matrix /\ Len(u.elems) = n
  /\ \A i \in 1..n : IsNumber(u.elems[i])

\* a tagged array of d rows of d numbers
IsMatrix(m, d) ==
  /\ IsArray(m) /\ m.matrix /\ Len(m.elems) = d
  /\ \A i \in 1..d : IsVector(m.elems[i], d)

HasWholeEntries(m, d) ==
  \A i \in 0..(d - 1), j \in 0..(d - 1) : IsWhole(At2(m, i, j))

\* the d x d identity, written out
Identity(d) ==
  Arr([i \in 1..d |-> Arr([j \in 1..d |-> IF i = j THEN Lit(1) ELSE Lit(0)], FALSE)],
      TRUE)

\* the sum of a sequence of integers
RECURSIVE IntSum(_)
IntSum(s) == IF Len(s) = 0 THEN 0 ELSE Head(s) + IntSum(Tail(s))

\* the sum of f over a finite set
RECURSIVE SetSum(_, _)
SetSum(f, S) ==
  IF S = {} THEN 0
  ELSE LET x == CHOOSE y \in S : TRUE IN f[x] + SetSum(f, S \ {x})

Perms(d) ==
  {f \in [0..(d - 1) -> 0..(d - 1)] :
     \A i \in 0..(d - 1), j \in 0..(d - 1) : i # j => f[i] # f[j]}

Inversions(f, d) ==
  Cardinality({p \in (0..(d - 1)) \X (0..(d - 1)) : p[1] < p[2] /\ f[p[1]] > f[p[2]]})

RECURSIVE DiagonalProduct(_, _, _)
DiagonalProduct(m, f, i) ==
  IF i < 0 THEN 1 ELSE At2(m, i, f[i]).n * DiagonalProduct(m, f, i - 1)

\* the determinant of a matrix of whole numbers by Leibniz's formula
Leibniz(m, d) ==
  SetSum([f \in Perms(d) |->
           (IF Inversions(f, d) % 2 = 0 THEN 1 ELSE -1) * DiagonalProduct(m, f, d - 1)],
         Perms(d))

\* C1: for every tagged d x d matrix M (d in 2..4) with a non-zero
\* determinant, linearMultiply(M, calculateInverseMatrix(M)) is the d x d
\* identity (numbers being exact).
C1_InverseTimesMatrix ==
  \A d \in Dims :
    (/\ Returned("calculateInverseMatrix")
     /\ IsMatrix(args[1], d)
     /\ Leibniz(args[1], d) # 0)
    => /\ errors = 0 /\ ~thrown
       /\ linearMultiply(args[1], result) = Return(Identity(d))

C1_Witness ==
  /\ Returned("calculateInverseMatrix")
  /\ args[1] = Dense(4)
  /\ At2(result, 0, 2) = Num(-5, 24)
  /\ linearMultiply(args[1], result).value = Identity(4)

\* C2: calculateDeterminant of a tagged matrix of dimension 2, 3 or 4 is the
\* value of det2, det3 or det4 chosen by m.length, and that value is the
\* determinant of the matrix; det2([[1,2],[3,4]]) is -2 and det3 of the
\* 3 x 3 identity is 1.
C2_Determinant ==
  /\ det2(Arr(<<Arr(<<Lit(1), Lit(2)>>, FALSE), Arr(<<Lit(3), Lit(4)>>, FALSE)>>, TRUE))
       = Lit(-2)
  /\ det3(Identity(3)) = Lit(1)
  /\ \A d \in Dims :
       (Returned("calculateDeterminant") /\ IsMatrix(args[1], d))
       => /\ errors = 0 /\ ~thrown
          /\ result = Lit(Leibniz(args[1], d))
          /\ result = (IF d = 2 THEN det2(args[1])
                       ELSE IF d = 3 THEN det3(args[1]) ELSE det4(args[1]))

C2_Witness ==
  /\ Returned("calculateDeterminant")
  /\ args[1] = Dense(4)
  /\ result = Lit(-24)

\* C3: mat2(), mat3() and mat4() return the identity, and for every tagged
\* d x d matrix M both linearMultiply(matd(), M) and linearMultiply(M, matd())
\* equal M under linearEquivalence.
C3_IdentityIsNeutral ==
  \A d \in Dims :
    /\ (Returned("mat") /\ args = <<Lit(d)>>) => result = Identity(d)
    /\ (/\ Returned("linearMultiply")
        /\ IsMatrix(args[1], d) /\ IsMatrix(args[2], d)
        /\ args[1] = matN(d, << >>))
       => /\ errors = 0 /\ ~thrown
          /\ IsMatrix(result, d)
          /\ linearEquivalence(result, args[2])
    /\ (/\ Returned("linearMultiply")
        /\ IsMatrix(args[1], d) /\ IsMatrix(args[2], d)
        /\ args[2] = matN(d, << >>))
       => /\ errors = 0 /\ ~thrown
          /\ IsMatrix(result, d)
          /\ linearEquivalence(result, args[1])

C3_Witness ==
  /\ Returned("linearMultiply")
  /\ args[1] = mat3(<< >>)
  /\ args[2] = Dense(3)
  /\ linearEquivalence(result, Dense(3))
  /\ result # args[1]

\* an untagged array of numbers, of any length
IsVectorOfNumbers(u) == IsArray(u) /\ IsVector(u, Len(u.elems))

\* a tagged square matrix of numbers, of any dimension
IsSquareMatrix(m) == IsArray(m) /\ IsMatrix(m, Len(m.elems))

\* the buffer holds, component by component, what the conversion Conv(_)
\* makes of the vector's components in order, or of the matrix's entries in
\* column-major order
FlattenLayout(Conv(_)) ==
  /\ \A n \in Dims :
       IsVector(args[1], n)
       => /\ result.kind = "float32array"
          /\ Len(result.elems) = n
          /\ \A i \in 0..(n - 1) : result.elems[i + 1] = Conv(At(args[1], i))
  /\ \A d \in Dims :
       IsMatrix(args[1], d)
       => /\ result.kind = "float32array"
          /\ Len(result.elems) = d * d
          /\ \A r \in 0..(d - 1), c \in 0..(d - 1) :
               result.elems[c * d + r + 1] = Conv(At2(args[1], r, c))

Same(x) == x

\* C4 as claimed: linearFlatten of a vector of n scalars is a buffer of length
\* n holding the components in order, and of a tagged d x d matrix M a buffer
\* of length d*d whose element c*d + r equals M[r][c].
C4_FlattenHoldsComponents ==
  Returned("linearFlatten") => FlattenLayout(Same)

\* C4 as amended: the lengths and the column-major order are as claimed, and
\* each element is the component rounded to the nearest 32-bit float.
C4_FlattenHoldsRoundedComponents ==
  Returned("linearFlatten") => (errors = 0 /\ ~thrown /\ FlattenLayout(fround))

C4_Witness ==
  /\ Returned("linearFlatten")
  /\ args[1] = SetAt2(Dense(3), 0, 1, Lit(Pow2(SignificandBits) + 1))
  /\ result.elems[2] = Lit(1)
  /\ result.elems[4] = Lit(Pow2(SignificandBits))

\* no component of the value is NaN or a non-number
RECURSIVE HoldsOnlyNumbers(_)
HoldsOnlyNumbers(x) ==
  IF IsNumber(x) THEN ~IsNaN(x)
  ELSE IF IsArray(x) THEN \A i \in 1..Len(x.elems) : HoldsOnlyNumbers(x.elems[i])
  ELSE x.kind = "undefined"

\* C5: linearMultiply reports a diagnostic and returns undefined for operands
\* whose shapes do not match (vectors of different length, matrices of
\* different dimension, a matrix and a vector of different length, an untagged
\* vector with a tagged matrix of the same length), and never returns NaN or
\* non-numeric components for operands holding finite numbers.
C5_MultiplyRejectsMismatch ==
  Returned("linearMultiply") =>
    LET u == args[1]
        v == args[2]
        mismatch ==
          \/ IsVectorOfNumbers(u) /\ IsVectorOfNumbers(v) /\ Length(u) # Length(v)
          \/ IsSquareMatrix(u) /\ IsSquareMatrix(v) /\ Length(u) # Length(v)
          \/ IsSquareMatrix(u) /\ IsVectorOfNumbers(v) /\ Length(u) # Length(v)
          \/ IsVectorOfNumbers(u) /\ IsSquareMatrix(v)
    IN  /\ mismatch => (errors >= 1 /\ result = Undefined)
        /\ (result # Undefined) => HoldsOnlyNumbers(result)

\* the rows of two tagged matrices have pairwise the same length
RowsAgree(u, v) ==
  \A i \in 0..(Length(u) - 1) : Length(At(u, i)) = Length(At(v, i))

C7_ScaleEveryComponent ==
  Returned("linearScale") =>
    LET s == args[1]
        u == args[2]
    IN  \A d \in Dims :
          /\ IsVector(u, d) =>
               /\ IsVector(result, d)
               /\ \A i \in 0..(d - 1) : At(result, i) = Lit(s.n * At(u, i).n)
          /\ IsMatrix(u, d) =>
               /\ IsMatrix(result, d)
               /\ \A i \in 0..(d - 1), j \in 0..(d - 1) :
                    At2(result, i, j) = Lit(s.n * At2(u, i, j).n)

\* C8: a call that reports a diagnostic returns undefined.
C8_DiagnosticMeansUndefined ==
  (pc = "returned" /\ errors >= 1) => result = Undefined

\* C9: buildOrthographicMatrix throws exactly when left == right, bottom ==
\* top or near == far, and otherwise returns a tagged 4 x 4 matrix.
C9_OrthographicThrows ==
  Returned("buildOrthographicMatrix") =>
    /\ thrown <=> (args[1] = args[2] \/ args[3] = args[4] \/ args[5] = args[6])
    /\ ~thrown => (errors = 0 /\ IsMatrix(result, 4))

C9_Witness ==
  /\ Returned("buildOrthographicMatrix")
  /\ args[1] # args[2] /\ args[3] # args[4] /\ args[5] # args[6]
  /\ ~thrown
  /\ IsMatrix(result, 4)
  /\ At2(result, 2, 2) = Lit(-2)

\* C10: linearMultiply of two tagged d x d matrices is their tagged
\* row-by-column product; of a tagged d x d matrix M and an untagged d-vector
\* v the untagged vector of the dot products of the rows of M with v; of two
\* untagged vectors of equal length the vector of the products of their
\* components.
C10_MultiplyCases ==
  Returned("linearMultiply") =>
    LET u == args[1]
        v == args[2]
    IN  \A d \in Dims :
          /\ (IsMatrix(u, d) /\ IsMatrix(v, d)) =>
               /\ errors = 0 /\ ~thrown
               /\ IsMatrix(result, d)
               /\ \A i \in 0..(d - 1), j \in 0..(d - 1) :
                    At2(result, i, j)
                      = Lit(IntSum([k \in 1..d |->
                                     At2(u, i, k - 1).n * At2(v, k - 1, j).n]))
          /\ (IsMatrix(u, d) /\ IsVector(v, d)) =>
               /\ errors = 0 /\ ~thrown
               /\ IsVector(result, d)
               /\ \A i \in 0..(d - 1) :
                    At(result, i)
                      = Lit(IntSum([j \in 1..d |-> At2(u, i, j - 1).n * At(v, j - 1).n]))
          /\ (IsVector(u, d) /\ IsVector(v, d)) =>
               /\ errors = 0 /\ ~thrown
               /\ IsVector(result, d)
               /\ \A i \in 0..(d - 1) : At(result, i) = Lit(At(u, i).n * At(v, i).n)

C10_Witness ==
  /\ Returned("linearMultiply")
  /\ args[1] = Dense(3)
  /\ IsVector(args[2], 3)
  /\ IsVector(result, 3)
  /\ At(result, 0) # At(result, 1)

\* the numbers a constructor call was given: the scalars, or the components
\* of the one array
GivenNumbers ==
  IF Len(args) = 2 /\ IsArray(args[2]) THEN args[2].elems ELSE Tail(args)

\* C12: vecN (N in 2..4) called with k numbers, as scalars or as one array,
\* returns exactly N components: the first min(k, N) numbers in order, then
\* 0.0 for each missing component, except that a missing fourth component
\* of vec4 is 1.0; numbers beyond the Nth are dropped.
C12_VectorPadding ==
  Returned("vec") =>
    LET N == args[1].n
        given == GivenNumbers
    IN  /\ errors = 0 /\ ~thrown
        /\ IsVector(result, N)
        /\ \A i \in 1..N :
             result.elems[i] = IF i <= Len(given) THEN given[i]
                               ELSE IF N = 4 /\ i = 4 THEN Lit(1)
                               ELSE Lit(0)

C12_Witness ==
  /\ Returned("vec")
  /\ args = <<Lit(4), Arr(<<Lit(1), Lit(2)>>, FALSE)>>
  /\ result = Arr(<<Lit(1), Lit(2), Lit(0), Lit(1)>>, FALSE)

\* the components of two arrays are strictly equal at every position; for
\* tagged matrices the rows have equal lengths and strictly equal entries
SameComponents(u, v) ==
  \A i \in 1..Len(u.elems) :
    IF u.matrix
    THEN /\ Len(u.elems[i].elems) = Len(v.elems[i].elems)
         /\ \A j \in 1..Len(u.elems[i].elems) :
              u.elems[i].elems[j] = v.elems[i].elems[j]
    ELSE u.elems[i] = v.elems[i]

\* C13: linearEquivalence(u, v) is true exactly when u and v have the same
\* length, the same tag status and strictly equal components at every
\* position; it is false when exactly one of them is tagged; it is
\* reflexive and symmetric.
C13_Equivalence ==
  Returned("linearEquivalence") =>
    LET u == args[1]
        v == args[2]
    IN  /\ errors = 0 /\ ~thrown
        /\ result = Bool(/\ Len(u.elems) = Len(v.elems)
                         /\ u.matrix = v.matrix
                         /\ SameComponents(u, v))
        /\ (u.matrix # v.matrix) => result = Bool(FALSE)
        /\ (u = v) => result = Bool(TRUE)
        /\ result = Bool(linearEquivalence(v, u))

C13_Witness ==
  /\ Returned("linearEquivalence")
  /\ args[1] \in Ragged /\ args[2] \in Ragged /\ args[1] # args[2]
  /\ At(args[1], 0) # At(args[2], 0)
  /\ Len(At(args[1], 0).elems) < Len(At(args[2], 0).elems)
  /\ result = Bool(FALSE)

\* C14: for every tagged square matrix M, transposeMatrix(M)[i][j] is
\* M[j][i], and transposeMatrix(transposeMatrix(M)) equals M under
\* linearEquivalence.
C14_TransposeInvolution ==
  \A d \in Dims :
    (Returned("transposeMatrix") /\ IsMatrix(args[1], d)) =>
      /\ errors = 0 /\ ~thrown
      /\ IsMatrix(result, d)
      /\ \A i \in 0..(d - 1), j \in 0..(d - 1) :
           At2(result, i, j) = At2(args[1], j, i)
      /\ linearEquivalence(transposeMatrix(result).value, args[1])

C14_Witness ==
  /\ Returned("transposeMatrix")
  /\ args[1] = Dense(3)
  /\ At2(result, 0, 1) = Lit(1) /\ At2(result, 1, 0) = Lit(-1)

\* the three numbers a call was given, as scalars or as one array
GivenTriple == IF Len(args) = 1 THEN args[1].elems ELSE args

\* the points the generated matrices are applied to
Points ==
  {<<Lit(px), Lit(py), Lit(pz), Lit(pw)>> :
     px \in Comps, py \in Comps, pz \in Comps, pw \in Comps}

\* C15: translateMatrix(x, y, z) and translateMatrix([x, y, z]) return the
\* same matrix, the 4 x 4 identity with x, y, z in column 3 of rows 0, 1, 2;
\* applied with linearMultiply to vec4(px, py, pz, 1) it gives
\* vec4(px + x, py + y, pz + z, 1), and translateMatrix(1, 2, 3) applied to
\* vec4(0, 0, 0, 1) gives vec4(1, 2, 3, 1).
C15_Translation ==
  Returned("translateMatrix") =>
    LET t == GivenTriple
    IN  /\ errors = 0 /\ ~thrown
        /\ IsMatrix(result, 4)
        /\ \A i \in 0..3, j \in 0..3 :
             At2(result, i, j) = IF j = 3 /\ i < 3 THEN t[i + 1]
                                 ELSE IF i = j THEN Lit(1) ELSE Lit(0)
        /\ \A p \in Points :
             p[4] = Lit(1) =>
               linearMultiply(result, Arr(p, FALSE))
                 = Return(Arr(<<Plus(p[1], t[1]), Plus(p[2], t[2]),
                                Plus(p[3], t[3]), Lit(1)>>, FALSE))
        /\ t = <<Lit(1), Lit(2), Lit(3)>> =>
             linearMultiply(result, vec4(<<Lit(0), Lit(0), Lit(0), Lit(1)>>))
               = Return(vec4(<<Lit(1), Lit(2), Lit(3), Lit(1)>>))

C15_Witness ==
  /\ Returned("translateMatrix")
  /\ args = <<Arr(<<Lit(1), Lit(2), Lit(3)>>, FALSE)>>
  /\ At2(result, 0, 3) = Lit(1) /\ At2(result, 1, 3) = Lit(2)
  /\ At2(result, 2, 3) = Lit(3) /\ At2(result, 3, 3) = Lit(1)

\* C16: scalingMatrix(a, b, c) and scalingMatrix([a, b, c]) return the same
\* matrix, the 4 x 4 identity with a, b, c at [0][0], [1][1], [2][2];
\* applied to vec4(px, py, pz, pw) it gives vec4(a px, b py, c pz, pw), and
\* scalingMatrix(2, 3, 4) applied to vec4(1, 1, 1, 1) gives vec4(2, 3, 4, 1).
C16_Scaling ==
  Returned("scalingMatrix") =>
    LET t == GivenTriple
    IN  /\ errors = 0 /\ ~thrown
        /\ IsMatrix(result, 4)
        /\ \A i \in 0..3, j \in 0..3 :
             At2(result, i, j) = IF i = j /\ i < 3 THEN t[i + 1]
                                 ELSE IF i = j THEN Lit(1) ELSE Lit(0)
        /\ \A p \in Points :
             linearMultiply(result, Arr(p, FALSE))
               = Return(Arr(<<Times(t[1], p[1]), Times(t[2], p[2]),
                              Times(t[3], p[3]), p[4]>>, FALSE))
        /\ t = <<Lit(2), Lit(3), Lit(4)>> =>
             linearMultiply(result, vec4(<<Lit(1), Lit(1), Lit(1), Lit(1)>>))
               = Return(vec4(<<Lit(2), Lit(3), Lit(4), Lit(1)>>))

C16_Witness ==
  /\ Returned("scalingMatrix")
  /\ args = <<Lit(2), Lit(3), Lit(4)>>
  /\ At2(result, 0, 0) = Lit(2) /\ At2(result, 1, 1) = Lit(3)
  /\ At2(result, 2, 2) = Lit(4) /\ At2(result, 3, 3) = Lit(1)

\* a 4 x 4 matrix that is the identity outside rows and columns p and q
IdentityOutside(m, p, q) ==
  \A i \in 0..3, j \in 0..3 :
    ({i, j} \cap {p, q} = {} \/ (i # j /\ ~({i, j} \subseteq {p, q})))
      => At2(m, i, j) = IF i = j THEN Lit(1) ELSE Lit(0)

IsVec3(x) == IsArray(x) /\ Len(x.elems) = 3

\* C18: viewMatrixAt reports a diagnostic and returns undefined whenever
\* one of eye, at, up is not an array of exactly 3 components, whatever the
\* other two are; nothing is computed in that case (one report, no throw).
C18_ViewRejectsNonVec3 ==
  (Returned("viewMatrixAt") /\ \E k \in 1..3 : ~IsVec3(args[k])) =>
    /\ result = Undefined
    /\ errors = 1
    /\ ~thrown

C18_Witness ==
  /\ Returned("viewMatrixAt")
  /\ args[1] = Undefined /\ IsVec3(args[2]) /\ args[3] = vec4(<< >>)
  /\ result = Undefined /\ errors = 1

\* C19: when eye and at are 3-vectors with equal components, viewMatrixAt
\* returns the 4 x 4 identity without a diagnostic, whatever the 3-vector
\* up is.
C19_ViewOfCoincidentPoints ==
  (/\ Returned("viewMatrixAt")
   /\ \A k \in 1..3 : IsVector(args[k], 3)
   /\ args[1].elems = args[2].elems) =>
    /\ result = Identity(4)
    /\ errors = 0
    /\ ~thrown

C19_Witness ==
  /\ Returned("viewMatrixAt")
  /\ args[1] = Arr(<<Lit(1), Lit(0), Lit(1)>>, FALSE)
  /\ args[2] = args[1]
  /\ args[3] = Arr(<<Lit(0), Lit(0), Lit(0)>>, FALSE)
  /\ result = Identity(4)

\* C20: for every tagged 4 x 4 matrix m, normalizeMatrix(m, false) is the
\* inverse of the transpose of m, which for an invertible m is the
\* transpose of the inverse; normalizeMatrix(m, true) is a tagged 3 x 3
\* matrix b with b[i][j] the entry [i][j] of that 4 x 4 inverse transpose.
C20_NormalMatrix ==
  (Returned("normalizeMatrix") /\ IsMatrix(args[1], 4)) =>
    LET m == args[1]
        inverseTranspose == calculateInverseMatrix(transposeMatrix(m).value).value
        invertible == Leibniz(m, 4) # 0
    IN  /\ errors = 0 /\ ~thrown
        /\ invertible =>
             /\ inverseTranspose = transposeMatrix(calculateInverseMatrix(m).value).value
             /\ linearMultiply(inverseTranspose, transposeMatrix(m).value)
                  = Return(Identity(4))
        /\ args[2] = Bool(FALSE) => result = inverseTranspose
        /\ args[2] = Bool(TRUE) =>
             /\ Tagged(result) /\ Length(result) = 3
             /\ \A i \in 0..2 : Length(At(result, i)) = 3
             /\ \A i \in 0..2, j \in 0..2 :
                  At2(result, i, j) = At2(inverseTranspose, i, j)

C20_Witness ==
  /\ Returned("normalizeMatrix")
  /\ args = <<Dense(4), Bool(TRUE)>>
  /\ IsMatrix(result, 3)
  /\ At2(result, 2, 0) = Num(-5, 24)

\* m carries the tag and has exactly d rows, each of length d
HasShape(m, d) ==
  /\ IsArray(m) /\ m.matrix /\ Len(m.elems) = d
  /\ \A i \in 1..d : IsArray(m.elems[i]) /\ Len(m.elems[i].elems) = d

IsSquare(m) == \E d \in Dims : HasShape(m, d)

\* the functions that return matrices
MatrixProducers ==
  {"mat", "linearAddition", "linearSubtract", "linearMultiply", "transposeMatrix",
   "translateMatrix", "rotateMatrix", "rotateX", "rotateY", "rotateZ",
   "scalingMatrix", "viewMatrixAt", "buildOrthographicMatrix",
   "buildPerspectiveMatrix", "calculateInverseMatrix", "normalizeMatrix"}

\* the call is one that is given matrices where it takes matrices
OnMatrices ==
  IF op \in {"linearAddition", "linearSubtract", "linearMultiply"}
  THEN IsSquare(args[1]) /\ IsSquare(args[2])
  ELSE IF op \in {"transposeMatrix", "normalizeMatrix"} THEN IsSquare(args[1])
  ELSE TRUE

\* the dimension of the matrix the call is to return
Dimension ==
  IF op = "mat" THEN args[1].n
  ELSE IF op \in {"linearAddition", "linearSubtract", "linearMultiply",
                  "transposeMatrix", "calculateInverseMatrix"}
  THEN Len(args[1].elems)
  ELSE IF op = "normalizeMatrix"
  THEN (IF args[2] \in {Bool(TRUE), Lit(1)} THEN 3 ELSE Len(args[1].elems))
  ELSE 4

\* C11: every matrix returned by mat2/mat3/mat4 (with any number of scalar
\* arguments), by linearAddition, linearSubtract and linearMultiply on two
\* matrices, by transposeMatrix, translateMatrix, rotateMatrix, rotateX,
\* rotateY, rotateZ, scalingMatrix, viewMatrixAt, buildOrthographicMatrix,
\* buildPerspectiveMatrix, inverse2/3/4 and normalizeMatrix carries the
\* tag and has exactly d rows, each of length d.
C11_MatricesAreSquare ==
  (/\ pc = "returned" /\ op \in MatrixProducers
   /\ OnMatrices
   /\ ~thrown /\ result # Undefined) => HasShape(result, Dimension)

C11_Witness ==
  /\ Returned("rotateMatrix")
  /\ args = <<Lit(180), Lit(1), Lit(2), Lit(2)>>
  /\ HasShape(result, 4)
  /\ At2(result, 0, 0) = Num(-7, 9) /\ At2(result, 1, 2) = Num(8, 9)

\* every entry of the d x d matrix m is Infinity, -Infinity or NaN
NoFiniteEntry(m, d) ==
  \A i \in 0..(d - 1), j \in 0..(d - 1) :
    IsNumber(At2(m, i, j)) /\ ~IsFinite(At2(m, i, j))

\* C21: calculateInverseMatrix of a tagged matrix of dimension 2, 3 or 4
\* whose determinant is zero does not throw and reports nothing; it returns
\* a tagged matrix of the same dimension whose entries are all non-finite
\* (cofactors divided by zero).
C21_SingularInverse ==
  \A d \in Dims :
    (/\ Returned("calculateInverseMatrix")
     /\ IsMatrix(args[1], d)
     /\ Leibniz(args[1], d) = 0)
    => /\ errors = 0 /\ ~thrown
       /\ HasShape(result, d)
       /\ NoFiniteEntry(result, d)

C21_Witness ==
  /\ Returned("calculateInverseMatrix")
  /\ args[1] = SetAt2(mat3(<< >>), 1, 1, Lit(0))
  /\ errors = 0 /\ ~thrown
  /\ At2(result, 0, 0) = NaN
  /\ At2(result, 1, 1) = Num(1, 0)

\* the positions buildPerspectiveMatrix computes or marks
PerspectiveEntries == {<<0, 0>>, <<1, 1>>, <<2, 2>>, <<2, 3>>, <<3, 2>>}

\* C22: buildPerspectiveMatrix never throws for numeric arguments, near = far
\* included; its result is a tagged 4 x 4 matrix with -1 at [3][2], 0 at
\* [3][3], and 0 at every position other than [0][0], [1][1], [2][2], [2][3]
\* and [3][2].
C22_Perspective ==
  Returned("buildPerspectiveMatrix")
  => /\ ~thrown
     /\ HasShape(result, 4)
     /\ At2(result, 3, 2) = Lit(-1)
     /\ At2(result, 3, 3) = Lit(0)
     /\ \A i \in 0..3, j \in 0..3 :
          <<i, j>> \notin PerspectiveEntries => At2(result, i, j) = Lit(0)

C22_Witness ==
  /\ Returned("buildPerspectiveMatrix")
  /\ args = <<Lit(90), Lit(1), Lit(1), Lit(1)>>
  /\ ~thrown
  /\ At2(result, 0, 0) = Lit(1)
  /\ At2(result, 2, 2) = Num(-1, 0) /\ At2(result, 2, 3) = Num(-1, 0)
  /\ At2(result, 3, 2) = Lit(-1)

\* C23: no library operation other than normalizeVectors itself modifies a
\* vector or matrix passed to it as an argument: after the call every
\* argument array holds the same components as before.
C23_ArgumentsUnchanged ==
  (pc = "returned" /\ op # "normalizeVectors") => argsLeft = args

\* C24: normalizeVectors(u) of a vector whose components are all 0 reports
\* the diagnostic and returns undefined, leaving u's components unchanged;
\* it never returns a vector with NaN components.
C24_ZeroLengthReported ==
  (/\ Returned("normalizeVectors")
   /\ ~Truthy(args[2])
   /\ IsArray(args[1])
   /\ \A i \in 1..Length(args[1]) : args[1].elems[i] = Lit(0))
  => /\ errors = 1 /\ ~thrown
     /\ result = Undefined
     /\ argsLeft = args

\* the sum of the first three numbers drawn
DrawnSum == Plus(Plus(drawn[1], drawn[2]), drawn[3])

\* the channels of the colour returned are the numbers drawn, but for
\* channel, which is lower by overage
ReducedBy(channel, overage) ==
  /\ result.red = (IF channel = "red" THEN Minus(drawn[1], overage) ELSE drawn[1])
  /\ result.green = (IF channel = "green" THEN Minus(drawn[2], overage) ELSE drawn[2])
  /\ result.blue = (IF channel = "blue" THEN Minus(drawn[3], overage) ELSE drawn[3])

\* C25: the brightness-reduction loop of randomRGBAColor terminates on every
\* execution, whatever the draws and the channels chosen: every pass through
\* the body of the loop leaves the overage at 0, and the call returns.
C25_LoopTerminates ==
  /\ [][pc = "reduce" => currentOverage' = Lit(0)]_vars
  /\ <>(pc = "returned")

C25_Witness ==
  /\ Returned("randomRGBAColor")
  /\ Less(maximumColorSum, DrawnSum)
  /\ randomColorIndex = Lit(2)
  /\ currentOverage = Lit(0)

C27_RandomNumberInBounds ==
  (/\ Returned("randomNumber")
   /\ ~Less(args[3], Lit(0)) /\ ~Less(args[2], args[3]))
  => /\ ~Less(result, args[3])
     /\ ~Less(args[2], result)
     /\ (args[1] = Bool(TRUE) /\ IsWhole(args[2]) /\ IsWhole(args[3]))
        => IsWhole(result)

\* the browser functions initShaders calls when every stage succeeds
StageCalls ==
  <<"getElementById",
    "createShader", "shaderSource", "compileShader", "getShaderParameter",
    "getElementById",
    "createShader", "shaderSource", "compileShader", "getShaderParameter",
    "createProgram", "attachShader", "attachShader", "linkProgram",
    "getProgramParameter">>

InfoLogs == {"getShaderInfoLog", "getProgramInfoLog"}

\* the positions of the log whose access answered with a failure
Failures == {k \in 1..Len(calls) : calls[k].returned \in {"null", "false"}}

\* the log without the reading of an error log that follows a failure
StagesDone == SelectSeq(calls, LAMBDA c : c.fn \notin InfoLogs)

\* C28: initShaders goes through element lookup, vertex compile, element
\* lookup, fragment compile and link in that order; the first failing stage
\* shows exactly one message and returns null, and no later stage is entered;
\* a program is returned only after all five stages succeeded, with no
\* message shown.
C28_StagesInOrder ==
  op = "initShaders" =>
    /\ Len(StagesDone) <= Len(StageCalls)
    /\ \A k \in 1..Len(StagesDone) : StagesDone[k].fn = StageCalls[k]
    /\ \A k \in 1..Len(StagesDone) :
         /\ k \in 2..5 => StagesDone[k].arg = "VERTEX_SHADER"
         /\ k \in 7..10 => StagesDone[k].arg = "FRAGMENT_SHADER"
    /\ \A k \in Failures :
         \A j \in (k + 1)..Len(calls) : calls[j].fn \in InfoLogs
    /\ Failures # {} => pc = "returned"
    /\ pc # "returned" => shown = << >>
    /\ pc = "returned" =>
         IF Failures = {}
         THEN /\ result = Object("program")
              /\ Len(StagesDone) = Len(StageCalls)
              /\ shown = << >>
         ELSE /\ result = Null
              /\ Len(shown) = 1

C28_Witness ==
  /\ Returned("initShaders")
  /\ result = Null
  /\ Len(shown) = 1
  /\ Len(StagesDone) = 5
  /\ calls[5].returned = "false"

\* the getContext calls made so far
Requests == SelectSeq(calls, LAMBDA c : c.fn = "getContext")

\* C29: create3DContext asks for webgl, experimental-webgl, webkit-3d and
\* moz-webgl in this order, returns the first context it is given and asks
\* for no name after it; a getContext that throws fails that name only; null
\* is returned exactly when all four names fail; setupWebGL returns null
\* without asking for a context when window.WebGLRenderingContext is absent.
C29_FirstContext ==
  op \in {"create3DContext", "setupWebGL"} =>
    /\ Len(Requests) <= Len(names)
    /\ \A k \in 1..Len(Requests) :
         /\ Requests[k].arg = names[k]
         /\ k < Len(Requests) => Requests[k].returned # "context"
    /\ (pc = "returned" /\ op = "create3DContext") =>
         /\ Len(Requests) >= 1
         /\ IF Requests[Len(Requests)].returned = "context"
            THEN result = Object(names[Len(Requests)])
            ELSE result = Null /\ Len(Requests) = Len(names)
    /\ (pc = "returned" /\ op = "setupWebGL") =>
         IF calls[2].returned = "undefined"
         THEN result = Null /\ Requests = << >>
         ELSE /\ Len(Requests) >= 1
              /\ result = Null <=>
                   /\ Len(Requests) = Len(names)
                   /\ \A k \in 1..Len(names) : Requests[k].returned # "context"

C29_Witness ==
  /\ Returned("create3DContext")
  /\ Len(Requests) = 3
  /\ Requests[1].returned = "throws"
  /\ Requests[2].returned = "null"
  /\ result = Object("webkit-3d")

\* the axis the handler run last selects
Selected ==
  IF op = "yButton" THEN yAxis ELSE IF op = "zButton" THEN zAxis ELSE xAxis

\* a step of the cube that is a call of render
IsFrame == cubeTheta' # cubeTheta

\* C30: the axis of the cube is 0, 1 or 2 and is the one of the button
\* clicked last (0 before any click); a click changes the axis alone; a
\* frame adds exactly 2 to the angle of that axis, leaves the other two
\* angles alone and leaves exactly one frame asked for; no angle decreases.
C30_CubeRotation ==
  /\ [](/\ cubeAxis \in {0, 1, 2}
        /\ cubeAxis = Selected
        /\ pc = "running" => frames = 1)
  /\ [][/\ (op' # op /\ op' \in {"xButton", "yButton", "zButton"}) =>
             cubeTheta' = cubeTheta /\ frames' = frames
        /\ IsFrame =>
             /\ cubeAxis' = cubeAxis
             /\ cubeTheta'[Selected + 1] = Plus(cubeTheta[Selected + 1], Lit(2))
             /\ \A k \in {0, 1, 2} \ {Selected} :
                  cubeTheta'[k + 1] = cubeTheta[k + 1]
             /\ frames' = 1
        /\ \A k \in 1..3 : ~Less(cubeTheta'[k], cubeTheta[k])]_vars

C30_Witness ==
  /\ pc = "running"
  /\ op = "zButton"
  /\ cubeAxis = zAxis
  /\ cubeTheta = <<Lit(2), Lit(4), Lit(6)>>
  /\ frames = 1

====
